---- MODULE Spec2Model ----
(***************************************************************************)
(* WhaleVault backend: the unshield-and-swap saga (api/routes/swap.py),    *)
(* the relaying signer it drives (services/relayer_service.py) and the     *)
(* proof-job table it reads (proof_queue/job_queue.py).                    *)
(*                                                                         *)
(* One saga run is one HTTP request handled by execute_swap (the Jupiter,  *)
(* single-transaction variant) or execute_swap_devnet (the Raydium,        *)
(* two-transaction variant).  Every await of the handler is one action;    *)
(* the outcome of each external call (quote provider, chain RPC, relayer   *)
(* submission) is chosen by the environment.                               *)
(*                                                                         *)
(* Nine specifications share the variables:                               *)
(*   Spec         the saga, reading a job table fixed at the start;        *)
(*   QueueSpec    the proof-job queue: submit, each job's processing task  *)
(*                and the sweep of old jobs;                               *)
(*   QueueFairSpec  QueueSpec with every job's task weakly fair;           *)
(*   FeeSpec      the relayer's fee functions called directly;             *)
(*   RelayerSpec  relay_unshield and the relay route's balance lookup      *)
(*                called directly by two callers, whose calls overlap;     *)
(*   ProviderSpec the swap providers' clients: Raydium's retrying request  *)
(*                loop, the quotes and Raydium's token list;               *)
(*   TokenListSpec  the calls of Jupiter's cached get_token_list, which    *)
(*                may be in flight together;                               *)
(*   DevnetRunSpec  one run of execute_swap_devnet with the request loop   *)
(*                of its quote and swap-transaction calls spelt out;       *)
(*   PairSpec     two runs of execute_swap_devnet sharing the relayer's    *)
(*                accounts.                                                *)
(***************************************************************************)
EXTENDS Integers, Sequences, FiniteSets, TLC

(***************************************************************************)
(* Program constants.                                                      *)
(***************************************************************************)
MAX_TRANSFER_RETRIES == 3
MIN_RELAYER_BALANCE_LAMPORTS == 2000000000
max_balance_checks == 5
MIN_SOL_RESERVE == 5000
relayer_fee_bps == 30
MIN_FEE_LAMPORTS == 5000
MIN_AMOUNT_LAMPORTS == 1000000
NULLIFIER_BYTES == 32

SOL_MINT == "So11111111111111111111111111111111111111112"

(***************************************************************************)
(* Values of the environment.                                              *)
(***************************************************************************)
\* The relayer's own address (str(keypair.pubkey())).
RelayerPubkey == "RelayerPubkey"
\* Strings that Pubkey.from_string accepts.  A request field only has its
\* length validated (32..44 characters), so a recipient or a mint may be a
\* string that is not a base58 public key.
ValidPubkeys == {RelayerPubkey, "RecipientWallet", "OutputMint", SOL_MINT}
Recipients == {"RecipientWallet", "NotBase58Recipient", RelayerPubkey}
\* The requested mint may be any string of that length, the mint of the
\* original asset included.
OutputMints == {"OutputMint", "NotBase58Mint", SOL_MINT}
JobIds == {"job-1"}
RequestJobIds == JobIds \cup {"job-unknown"}
\* Job amounts accepted by UnshieldProofRequest (amount > MIN_AMOUNT_LAMPORTS):
\* one whose 0.3% fee is below the minimum fee, one whose fee is above it.
Amounts == {MIN_AMOUNT_LAMPORTS + 1, 3000000}
\* Custodial SOL balances the chain may report to the fallback.
Balances == {0, 5000, 6000, 5000000}
\* Token balances the custodial token account may show after the swap.
TokenAmounts == {0, 5, 9}
\* The provider's estimated output amount (a decimal string).
QuoteOutAmounts == {"9"}
\* Transaction signatures returned by the chain (non-empty strings).
UnshieldSignatures == {"sigUnshieldA", "sigUnshieldB"}
SwapSignature == "sigSwap"
TransferSignature == "sigTransfer"
FallbackSignature == "sigFallback"

\* 64 hex characters: a 32-byte nullifier.
ValidNullifierHex == "00112233445566778899aabbccddeeff00112233445566778899aabbccddeeff"
\* Well-formed hex of the wrong length (2 bytes).
ShortNullifierHex == "abcd"
ValidProofHex == "c0ffee00c0ffee00"

(***************************************************************************)
(* Pure helpers.                                                           *)
(***************************************************************************)
Min(a, b) == IF a <= b THEN a ELSE b
Max(a, b) == IF a >= b THEN a ELSE b

Digit(d) == SubSeq("0123456789", d + 1, d + 1)

RECURSIVE NatToStr(_)
NatToStr(n) == IF n < 10 THEN Digit(n) ELSE NatToStr(n \div 10) \o Digit(n % 10)

\* Python str(int).
str(n) == IF n < 0 THEN "-" \o NatToStr(0 - n) ELSE NatToStr(n)

\* Pubkey.from_string succeeds.
IsPubkey(s) == s \in ValidPubkeys

\* bytes.fromhex(h): raises on an odd number of digits, otherwise yields
\* Len(h) / 2 bytes.
FromHexRaises(h) == Len(h) % 2 # 0
FromHexLen(h) == Len(h) \div 2

(***************************************************************************)
(* Records.                                                                *)
(***************************************************************************)
None == [none |-> TRUE]
\* Optional[str] holding a value.
Some(x) == [some |-> x]

\* ProofJob (the fields the saga reads, plus progress/stage/error).
ProofJob(status, progress, stage, result, error, amount, denomination) ==
    [status |-> status, progress |-> progress, stage |-> stage, result |-> result,
     error |-> error, amount |-> amount, denomination |-> denomination]

ProofResult(proof, nullifier) == [proof |-> proof, nullifier |-> nullifier]

\* The job records a saga request may find in the table: every status of
\* the lifecycle, and for a COMPLETED job the result shapes the handlers
\* check for (no result, an empty proof, an empty nullifier) and a
\* nullifier of the wrong length, which relay_unshield rejects.
JobShapes ==
    {ProofJob("pending", 0, "queued", None, None, a, 0) : a \in Amounts}
    \cup {ProofJob("processing", 60, "computing_proof", None, None, a, 0) : a \in Amounts}
    \cup {ProofJob("failed", 60, "computing_proof", None,
                   Some("Proof generation failed unexpectedly"), a, 0) : a \in Amounts}
    \cup {ProofJob("completed", 100, "finalizing", r, None, a, 0) :
            r \in {None,
                   ProofResult(ValidProofHex, ValidNullifierHex),
                   ProofResult("", ValidNullifierHex),
                   ProofResult(ValidProofHex, ""),
                   ProofResult(ValidProofHex, ShortNullifierHex)},
            a \in Amounts}

RelayResult(signature, fee_paid, amount_sent, recipient) ==
    [signature |-> signature, fee_paid |-> fee_paid, amount_sent |-> amount_sent,
     recipient |-> recipient]

\* SwapExecuteResponse (transferSignature defaults to "").
SwapExecuteResponse(unshieldSignature, swapSignature, transferSignature, outputAmount, outputMint, recipient, fee) ==
    [kind |-> "outcome", unshieldSignature |-> unshieldSignature,
     swapSignature |-> swapSignature, transferSignature |-> transferSignature,
     outputAmount |-> outputAmount, outputMint |-> outputMint,
     recipient |-> recipient, fee |-> fee]

\* The request ended by raising: an HTTPException built by the handler, or
\* an exception nothing caught (the framework answers 500).
HTTPException(status_code, detail) ==
    [kind |-> "error", status_code |-> status_code, detail |-> detail, handled |-> TRUE]
Unhandled(exc) ==
    [kind |-> "error", status_code |-> "500", detail |-> exc, handled |-> FALSE]

NoResponse == [kind |-> "none"]

\* One external call that moves funds or prices the swap, as the chain or
\* the provider sees it.
Call(op, dest, amount, ok, sig) ==
    [op |-> op, dest |-> dest, amount |-> amount, ok |-> ok, sig |-> sig]

(***************************************************************************)
(* State.                                                                  *)
(***************************************************************************)
VARIABLES
    relayer_enabled,    \* RelayerService.enabled (settings.relayer_enabled)
    relayer_keypair,    \* RelayerService._keypair: "none" or "loaded"
    keypair_file,       \* whether the keypair file exists on disk
    jobs,               \* ProofJobQueue._jobs: JobIds -> ProofJob or None
    pc,                 \* position of the handler
    variant,            \* "jupiter" (execute_swap) or "devnet" (execute_swap_devnet)
    request,            \* SwapExecuteRequest
    job,                \* the job returned by get_status
    quote,              \* the provider's quote
    unshield_result,    \* RelayResult of relay_unshield
    swap_signature,
    actual_token_amount,
    i,                  \* balance-poll loop index
    attempt,            \* transfer-retry loop index
    sol_amount,         \* the fallback's amount
    response,           \* what the request returned or raised
    calls,              \* the external calls of the run, in order
    in_fallback,        \* _handle_swap_failure_with_sol_fallback was called
    swap_fail,          \* the swap step that failed: "none", "build", "submit", "confirm"
    polls,              \* the token balances the polls of the run read (-1 = failed poll)
    lookup,             \* the fallback's balance lookup: [done, ok, balance]
    swap_executed,      \* the chain executed the run's swap transaction
    ata_steps,          \* the run's checks of the recipient's token account
    fee_bps,            \* RelayerService.fee_bps (settings.relayer_fee_bps)
    relayer_reply,      \* per caller, its direct call of a RelayerService method: in flight or ended
    tasks,              \* the _process_job task of every submitted job: position and locals
    now,                \* datetime.utcnow(), in whole hours
    trail,              \* per job, every (status, progress, stage) its record has held
    provider_call,      \* the provider method being run: [service, method, caught]
    delay,              \* _request_with_retry: the delay before the next retry, in seconds
    last_error,         \* _request_with_retry: the last retryable failure
    http_response,      \* resp: the httpx.Response _request_with_retry returned
    token_cache,        \* JupiterService._token_cache
    token_cache_time,   \* JupiterService._token_cache_time
    clock,              \* time.time(), in whole seconds
    fetched,            \* per provider, when it last fetched a non-empty token list
    token_reads,        \* the calls of JupiterService.get_token_list in flight: their locals
    saga,               \* the locals of each of two concurrent runs of execute_swap_devnet
    relayer_tokens,     \* the balance of the relayer's token account for the output mint
    relayer_sol         \* the relayer's SOL balance, in lamports

\* The job queue's own state besides the table, and the relayer's
\* configuration and last reply; the saga leaves them alone.
queue_vars == <<tasks, now, trail>>
relayer_vars == <<fee_bps, relayer_reply>>
\* The state of the swap providers' clients (services/raydium_service.py,
\* services/jupiter_service.py).
provider_vars == <<provider_call, delay, last_error, http_response, token_cache,
                   token_cache_time, clock, fetched, token_reads>>
\* Two concurrent runs and the balances they share.
pair_vars == <<saga, relayer_tokens, relayer_sol>>
service_vars == <<relayer_enabled, relayer_keypair, keypair_file, jobs, queue_vars,
                  relayer_vars, provider_vars, pair_vars>>
local_vars == <<variant, request, job, quote, unshield_result, swap_signature,
                actual_token_amount, i, attempt, sol_amount>>
ghost_vars == <<in_fallback, swap_fail, polls, lookup, swap_executed, ata_steps>>
vars == <<service_vars, pc, local_vars, response, calls, ghost_vars>>

NoLookup == [done |-> FALSE, ok |-> FALSE, balance |-> 0]
NoProviderCall == [service |-> "none", method |-> "none", started_at |-> 0,
                   last_fetch |-> None, caught |-> None]
\* Retry configuration of raydium_service.py; the delays are whole seconds
\* (1.0 and its doublings).
MAX_RETRIES == 3
RETRY_DELAY_SECONDS == 1
RETRY_BACKOFF_MULTIPLIER == 2
\* time.time() when the services are constructed.
Epoch == 1000
\* The callers of JupiterService.get_token_list on the one service object
\* (get_jupiter_service), and a caller that has not called.
TokenReaders == {"r1", "r2"}
NoTokenRead == [pc |-> "idle", now |-> 0, last_fetch |-> None, requested |-> FALSE,
                result |-> NoResponse]
\* The providers' clients as constructed, no call made yet.
ProviderIdle ==
    /\ provider_call = NoProviderCall
    /\ delay = RETRY_DELAY_SECONDS
    /\ last_error = None
    /\ http_response = None
    /\ token_cache = <<>>
    /\ token_cache_time = 0
    /\ clock = Epoch
    /\ fetched = [service \in {"raydium", "jupiter"} |-> None]
    /\ token_reads = [r \in TokenReaders |-> NoTokenRead]
\* No concurrent run is under way.
PairIdle ==
    /\ saga = [s \in {} |-> None]
    /\ relayer_tokens = 0
    /\ relayer_sol = 0
\* The callers of the one RelayerService object (get_relayer_service):
\* requests may be handled side by side.
RelayCallers == {"a", "b"}
\* A caller that has called nothing; nobody has.
NoReply == [op |-> "none", awaiting |-> FALSE]
NoReplies == [c \in RelayCallers |-> NoReply]
\* A dict with no entry.
EmptyTable == [id \in {} |-> None]
NoRequest == [job_id |-> "", recipient |-> "", output_mint |-> ""]

Requests == [job_id : RequestJobIds, recipient : Recipients, output_mint : OutputMints]

Init ==
    /\ relayer_enabled \in BOOLEAN
    /\ relayer_keypair = "none"
    /\ keypair_file \in BOOLEAN
    /\ jobs \in [JobIds -> JobShapes]
    /\ pc = "idle"
    /\ variant = "none"
    /\ request = NoRequest
    /\ job = None
    /\ quote = None
    /\ unshield_result = None
    /\ swap_signature = ""
    /\ actual_token_amount = 0
    /\ i = 0
    /\ attempt = 0
    /\ sol_amount = 0
    /\ response = NoResponse
    /\ calls = <<>>
    /\ in_fallback = FALSE
    /\ swap_fail = "none"
    /\ polls = <<>>
    /\ lookup = NoLookup
    /\ swap_executed = FALSE
    /\ ata_steps = <<>>
    /\ fee_bps = relayer_fee_bps
    /\ relayer_reply = NoReplies
    /\ tasks = EmptyTable
    /\ now = 0
    /\ trail = EmptyTable
    /\ ProviderIdle
    /\ PairIdle

(***************************************************************************)
(* RelayerService.                                                         *)
(***************************************************************************)
\* No minimum fee is applied.
calculate_fee_noMinimum(amount) == (amount * fee_bps) \div 10000

\* RelayerService.calculate_fee
calculate_fee(amount) == Max((amount * fee_bps) \div 10000, MIN_FEE_LAMPORTS)

\* RelayerService.calculate_amount_after_fee
calculate_amount_after_fee(amount) == amount - calculate_fee(amount)

\* _load_keypair raises RelayerError: nothing cached and no keypair file.
LoadKeypairRaises == relayer_keypair = "none" /\ ~keypair_file

RelayerError(message, submitted) ==
    [ok |-> FALSE, message |-> message, submitted |-> submitted, result |-> None]

\* str(e) of what submit_unshield_transaction raised.
RpcErrorText == "Transaction simulation failed"

\* The nullifier's length is not checked.
relay_unshield_anyNullifier(nullifier_len, recipient, amount, chain) ==
    IF ~relayer_enabled THEN RelayerError("Relayer is disabled", FALSE)
    ELSE IF ~IsPubkey(recipient)
        THEN RelayerError("Invalid recipient address: " \o recipient, FALSE)
    ELSE IF LoadKeypairRaises
        THEN RelayerError("Relayer keypair not found", FALSE)
    ELSE IF chain = ""
        THEN RelayerError("Failed to submit transaction: " \o RpcErrorText, TRUE)
    ELSE [ok |-> TRUE, message |-> "", submitted |-> TRUE,
          result |-> RelayResult(chain, calculate_fee(amount), amount, recipient)]

\* relay_unshield(nullifier, recipient, amount, proof, denomination), with
\* nullifier_len = len(nullifier) and chain the answer of
\* submit_unshield_transaction: a signature, or "" when it raises.  The
\* full amount is submitted; the fee is notional.
relay_unshield(nullifier_len, recipient, amount, chain) ==
    IF ~relayer_enabled THEN RelayerError("Relayer is disabled", FALSE)
    ELSE IF nullifier_len # NULLIFIER_BYTES
        THEN RelayerError("Invalid nullifier length", FALSE)
    ELSE IF ~IsPubkey(recipient)
        THEN RelayerError("Invalid recipient address: " \o recipient, FALSE)
    ELSE IF LoadKeypairRaises
        THEN RelayerError("Relayer keypair not found", FALSE)
    ELSE IF chain = ""
        THEN RelayerError("Failed to submit transaction: " \o RpcErrorText, TRUE)
    ELSE [ok |-> TRUE, message |-> "", submitted |-> TRUE,
          result |-> RelayResult(chain, calculate_fee(amount), amount, recipient)]

(***************************************************************************)
(* The saga: steps shared by execute_swap and execute_swap_devnet.         *)
(***************************************************************************)
\* The job's proof is not checked for emptiness.
ValidateJob_proofUnchecked(job_id) ==
    IF ~relayer_enabled
        THEN HTTPException("503", "Relayer service is currently disabled")
    ELSE IF job_id \notin DOMAIN jobs
        THEN HTTPException("404", "Proof job not found")
    ELSE IF jobs[job_id].status # "completed"
        THEN HTTPException("400", "Proof job not complete")
    ELSE IF jobs[job_id].result = None
        THEN HTTPException("500", "Proof result missing")
    ELSE IF jobs[job_id].result.nullifier = ""
        THEN HTTPException("500", "Proof or nullifier missing from job result")
    ELSE None

\* The checks both handlers make before any external call.  None when the
\* request may proceed, otherwise the HTTPException raised.
ValidateJob(job_id) ==
    IF ~relayer_enabled
        THEN HTTPException("503", "Relayer service is currently disabled")
    ELSE IF job_id \notin DOMAIN jobs
        THEN HTTPException("404", "Proof job not found")
    ELSE IF jobs[job_id].status # "completed"
        THEN HTTPException("400", "Proof job not complete")
    ELSE IF jobs[job_id].result = None
        THEN HTTPException("500", "Proof result missing")
    ELSE IF jobs[job_id].result.proof = "" \/ jobs[job_id].result.nullifier = ""
        THEN HTTPException("500", "Proof or nullifier missing from job result")
    ELSE None

\* The unshield pays the request's recipient directly.
UnshieldRecipient_requestRecipient(req) == req.recipient

\* The recipient argument both handlers pass to relay_unshield:
\* relayer.public_key, the signer's own account.
UnshieldRecipient(req) == RelayerPubkey

\* The handler ends: it returned an outcome or raised.
Finish(resp) ==
    /\ response' = resp
    /\ pc' = "done"

\* A request arrives (the previous one, if any, has ended).
Begin(v, req) ==
    /\ pc \in {"idle", "done"}
    /\ variant' = v
    /\ request' = req
    /\ quote' = None
    /\ unshield_result' = None
    /\ swap_signature' = ""
    /\ actual_token_amount' = 0
    /\ i' = 0
    /\ attempt' = 0
    /\ sol_amount' = 0
    /\ calls' = <<>>
    /\ in_fallback' = FALSE
    /\ swap_fail' = "none"
    /\ polls' = <<>>
    /\ lookup' = NoLookup
    /\ swap_executed' = FALSE
    /\ ata_steps' = <<>>
    /\ UNCHANGED service_vars
    /\ IF ValidateJob(req.job_id) # None
       THEN /\ job' = None
            /\ Finish(ValidateJob(req.job_id))
       ELSE /\ job' = jobs[req.job_id]
            /\ response' = NoResponse
            /\ pc' = IF v = "jupiter" THEN "j_quote" ELSE "d_fund"

\* Step 2 of both handlers: relay_unshield to the relayer's own account.
\* Everything it raises becomes an HTTPException.
UnshieldStep(next) ==
    \E chain \in UnshieldSignatures \cup {""} :
        LET nullifier_hex == job.result.nullifier
            proof_hex == job.result.proof
            dest == UnshieldRecipient(request)
            r == relay_unshield(FromHexLen(nullifier_hex), dest, job.amount, chain)
        IN
        /\ UNCHANGED <<relayer_enabled, keypair_file, jobs, queue_vars, relayer_vars,
                   provider_vars, pair_vars>>
        /\ UNCHANGED <<variant, request, job, quote, swap_signature,
                       actual_token_amount, i, attempt, sol_amount>>
        /\ UNCHANGED ghost_vars
        /\ IF FromHexRaises(nullifier_hex)
           THEN \* bytes.fromhex(nullifier_hex) raises ValueError
                /\ Finish(HTTPException("500", "Unshield failed"))
                /\ UNCHANGED <<relayer_keypair, unshield_result, calls>>
           ELSE IF LoadKeypairRaises
           THEN \* relayer.public_key raises RelayerError inside the try
                /\ Finish(HTTPException("e.status_code", "Relayer keypair not found"))
                /\ UNCHANGED <<relayer_keypair, unshield_result, calls>>
           ELSE IF FromHexRaises(proof_hex)
           THEN /\ Finish(HTTPException("500", "Unshield failed"))
                /\ relayer_keypair' = "loaded"
                /\ UNCHANGED <<unshield_result, calls>>
           ELSE /\ relayer_keypair' = "loaded"
                /\ calls' = IF r.submitted
                            THEN Append(calls, Call("relay_unshield", dest, job.amount,
                                                    r.ok, chain))
                            ELSE calls
                /\ IF r.ok
                   THEN /\ unshield_result' = r.result
                        /\ response' = response
                        /\ pc' = next
                   ELSE /\ unshield_result' = unshield_result
                        /\ Finish(HTTPException("e.status_code", r.message))

(***************************************************************************)
(* execute_swap: the single-transaction variant.                           *)
(***************************************************************************)
ExecuteSwap == \E req \in Requests : Begin("jupiter", req)

\* Step 1: the quote, before any fund movement.
JQuote ==
    /\ pc = "j_quote"
    /\ UNCHANGED service_vars
    /\ UNCHANGED <<variant, request, job, unshield_result, swap_signature,
                   actual_token_amount, i, attempt, sol_amount>>
    /\ UNCHANGED ghost_vars
    /\ \E ok \in BOOLEAN :
        /\ calls' = Append(calls, Call("get_quote", "", job.amount, ok, ""))
        /\ IF ok
           THEN /\ \E out \in QuoteOutAmounts : quote' = [out_amount |-> out]
                /\ response' = response
                /\ pc' = "j_unshield"
           ELSE /\ quote' = quote
                /\ Finish(HTTPException("502", "Swap quote unavailable"))

JUnshield ==
    /\ pc = "j_unshield"
    /\ UnshieldStep("j_swap_build")

\* The partial outcome reports the quote's estimate as output amount.
JSwapFailedResponse_quoteAmount ==
    SwapExecuteResponse(unshield_result.signature, "", "", quote.out_amount,
                        request.output_mint, request.recipient,
                        unshield_result.fee_paid)

\* The outcome execute_swap returns when the swap step raises.
JSwapFailedResponse ==
    SwapExecuteResponse(unshield_result.signature, "", "", "0",
                        request.output_mint, request.recipient,
                        unshield_result.fee_paid)

\* Step 3, first await: the provider builds the swap transaction.
JSwapBuild ==
    /\ pc = "j_swap_build"
    /\ UNCHANGED service_vars
    /\ UNCHANGED local_vars
    /\ UNCHANGED <<calls, in_fallback, polls, lookup, swap_executed, ata_steps>>
    /\ \E ok \in BOOLEAN :
        IF ok
        THEN /\ pc' = "j_swap_send"
             /\ UNCHANGED <<response, swap_fail>>
        ELSE /\ swap_fail' = "build"
             /\ Finish(JSwapFailedResponse)

\* Step 3, second await: sign with the relayer's key and submit.  Whether
\* the chain goes on to execute a transaction it accepted is the chain's
\* choice and is not known to the handler.
JSwapSend ==
    /\ pc = "j_swap_send"
    /\ UNCHANGED service_vars
    /\ UNCHANGED <<variant, request, job, quote, unshield_result,
                   actual_token_amount, i, attempt, sol_amount>>
    /\ UNCHANGED <<in_fallback, polls, lookup, ata_steps>>
    /\ \E ok \in BOOLEAN, executed \in BOOLEAN :
        /\ swap_executed' = (ok /\ executed)
        /\ calls' = Append(calls, Call("swap", RelayerPubkey, job.amount, ok,
                                       IF ok THEN SwapSignature ELSE ""))
        /\ IF ok
           THEN /\ swap_signature' = SwapSignature
                /\ swap_fail' = swap_fail
                /\ Finish(SwapExecuteResponse(unshield_result.signature, SwapSignature,
                                              "", quote.out_amount, request.output_mint,
                                              request.recipient, unshield_result.fee_paid))
           ELSE /\ swap_signature' = swap_signature
                /\ swap_fail' = "submit"
                /\ Finish(JSwapFailedResponse)

JupiterNext == ExecuteSwap \/ JQuote \/ JUnshield \/ JSwapBuild \/ JSwapSend

(***************************************************************************)
(* _handle_swap_failure_with_sol_fallback.                                 *)
(***************************************************************************)
\* The partial outcome drops the unshield signature.
UnshieldOnlyResponse_noSignature ==
    SwapExecuteResponse("", "", "", "0", request.output_mint, request.recipient,
                        unshield_result.fee_paid)

\* The outcome that carries the unshield signature only.
UnshieldOnlyResponse ==
    SwapExecuteResponse(unshield_result.signature, "", "", "0",
                        request.output_mint, request.recipient,
                        unshield_result.fee_paid)

\* The fallback's outcome keeps the requested output asset.
FallbackSentResponse_requestedMint(fallback_sig) ==
    SwapExecuteResponse(unshield_result.signature, "", fallback_sig, str(sol_amount),
                        request.output_mint, request.recipient, unshield_result.fee_paid)

\* The outcome reports the amount intended instead of the amount sent.
FallbackSentResponse_intendedAmount(fallback_sig) ==
    SwapExecuteResponse(unshield_result.signature, "", fallback_sig,
                        str(job.amount - unshield_result.fee_paid),
                        SOL_MINT, request.recipient, unshield_result.fee_paid)

\* The outcome of a fallback transfer that was submitted.
FallbackSentResponse(fallback_sig) ==
    SwapExecuteResponse(unshield_result.signature, "", fallback_sig, str(sol_amount),
                        SOL_MINT, request.recipient, unshield_result.fee_paid)

\* The swap's failure returns the partial outcome at once, with no fallback.
EnterFallback_returnPartial(stage) ==
    /\ in_fallback' = FALSE
    /\ swap_fail' = stage
    /\ Finish(SwapExecuteResponse(unshield_result.signature, "", "", "0",
                                  request.output_mint, request.recipient,
                                  unshield_result.fee_paid))

\* The handler is called and parses the recipient (outside any try).
\* stage is the swap step that failed, "none" when the arrival check did.
EnterFallback(stage) ==
    /\ in_fallback' = TRUE
    /\ swap_fail' = stage
    /\ IF IsPubkey(request.recipient)
       THEN /\ pc' = "f_balance"
            /\ response' = response
       ELSE Finish(Unhandled("ValueError: Pubkey.from_string(request.recipient)"))

\* The reserve is not deducted from the balance.
FallbackSafeAmount_noReserve(balance, original_amount, fee) ==
    Min(original_amount - fee, balance)

\* min(intended_amount, available_sol)
FallbackSafeAmount(balance, original_amount, fee) ==
    Min(original_amount - fee, balance - MIN_SOL_RESERVE)

\* A zero amount is let through.
InsufficientForFallback_zeroAllowed(amount) == amount < 0

\* if sol_amount <= 0: no transfer
InsufficientForFallback(amount) == amount <= 0

\* The amount used when the balance lookup raises.
FallbackAmountWithoutBalance(original_amount, fee) == original_amount - fee

\* The balance lookup and the sizing of the fallback.
FBalance ==
    /\ pc = "f_balance"
    /\ UNCHANGED service_vars
    /\ UNCHANGED <<variant, request, job, quote, unshield_result, swap_signature,
                   actual_token_amount, i, attempt>>
    /\ UNCHANGED <<calls, in_fallback, swap_fail, polls, swap_executed, ata_steps>>
    /\ \E balance \in Balances, ok \in BOOLEAN :
        /\ lookup' = [done |-> TRUE, ok |-> ok, balance |-> balance]
        /\ IF ok
           THEN LET amount == FallbackSafeAmount(balance, job.amount,
                                                 unshield_result.fee_paid)
                IN /\ sol_amount' = amount
                   /\ IF InsufficientForFallback(amount)
                      THEN Finish(UnshieldOnlyResponse)
                      ELSE /\ pc' = "f_send"
                           /\ response' = response
           ELSE /\ sol_amount' = FallbackAmountWithoutBalance(job.amount,
                                                              unshield_result.fee_paid)
                /\ pc' = "f_send"
                /\ response' = response

\* send_sol_to_recipient and the two outcomes after it.
FSend ==
    /\ pc = "f_send"
    /\ UNCHANGED service_vars
    /\ UNCHANGED local_vars
    /\ UNCHANGED ghost_vars
    /\ \E ok \in BOOLEAN :
        /\ calls' = Append(calls, Call("sol_transfer", request.recipient, sol_amount, ok,
                                       IF ok THEN FallbackSignature ELSE ""))
        /\ IF ok
           THEN Finish(FallbackSentResponse(FallbackSignature))
           ELSE Finish(UnshieldOnlyResponse)

FallbackNext == FBalance \/ FSend

(***************************************************************************)
(* execute_swap_devnet: the two-transaction variant.                       *)
(***************************************************************************)
AIRDROP_AMOUNT_LAMPORTS == 2000000000

ExecuteSwapDevnet == \E req \in Requests : Begin("devnet", req)

\* Step 0: relayer.public_key (outside any try), then ensure_relayer_funded,
\* which swallows every failure and may request an airdrop.
DFund ==
    /\ pc = "d_fund"
    /\ UNCHANGED <<relayer_enabled, keypair_file, jobs, queue_vars, relayer_vars,
                   provider_vars, pair_vars>>
    /\ UNCHANGED local_vars
    /\ UNCHANGED ghost_vars
    /\ IF LoadKeypairRaises
       THEN /\ Finish(Unhandled("RelayerError: Relayer keypair not found"))
            /\ UNCHANGED <<relayer_keypair, calls>>
       ELSE /\ relayer_keypair' = "loaded"
            /\ response' = response
            /\ pc' = "d_quote"
            /\ \E airdrop \in BOOLEAN :
                calls' = IF airdrop
                         THEN Append(calls, Call("request_airdrop", RelayerPubkey,
                                                 AIRDROP_AMOUNT_LAMPORTS, TRUE, ""))
                         ELSE calls

\* Step 1: the quote; then step 1.5 parses the output mint (outside any
\* try) and reads the mint's program and decimals, which cannot fail the
\* request.
\* The quote's failure is logged and the handler goes on.
DQuoteUnavailable_swallowed(status_code) ==
    /\ pc' = "d_unshield"
    /\ response' = response

\* A failed quote ends the request: 503 for a transient provider error,
\* 502 otherwise.
DQuoteUnavailable(status_code) ==
    Finish(HTTPException(status_code, "Raydium quote unavailable"))

DQuote ==
    /\ pc = "d_quote"
    /\ UNCHANGED service_vars
    /\ UNCHANGED <<variant, request, job, unshield_result, swap_signature,
                   actual_token_amount, i, attempt, sol_amount>>
    /\ UNCHANGED ghost_vars
    /\ \E result \in {"ok", "transient", "permanent", "exception"} :
        /\ calls' = Append(calls, Call("get_quote", "", job.amount, result = "ok", ""))
        /\ IF result = "ok"
           THEN /\ \E out \in QuoteOutAmounts : quote' = [out_amount |-> out]
                /\ IF IsPubkey(request.output_mint)
                   THEN /\ response' = response
                        /\ pc' = "d_unshield"
                   ELSE Finish(Unhandled("ValueError: Pubkey.from_string(request.output_mint)"))
           ELSE /\ quote' = quote
                /\ DQuoteUnavailable(IF result = "transient" THEN "503" ELSE "502")

DUnshield ==
    /\ pc = "d_unshield"
    /\ UnshieldStep("d_ensure_ata")

\* What a check of the recipient's token account can come to: the account
\* was created, it was there already, or the check or the creation raised.
AtaOutcomes == {"created", "exists", "failed"}
AtaStep(step, outcome) ==
    [step |-> step, outcome |-> outcome, calls_before |-> Len(calls),
     polls_before |-> Len(polls)]
CallsAfterAta(outcome) ==
    IF outcome = "created"
    THEN Append(calls, Call("create_ata", request.recipient, 0, TRUE, ""))
    ELSE calls

\* A failure of ensure_ata_exists ends the request with an error.
DEnsureAta_fatal ==
    /\ pc = "d_ensure_ata"
    /\ UNCHANGED service_vars
    /\ UNCHANGED local_vars
    /\ UNCHANGED <<in_fallback, swap_fail, polls, lookup, swap_executed>>
    /\ IF LoadKeypairRaises
       THEN /\ Finish(Unhandled("RelayerError: Relayer keypair not found"))
            /\ UNCHANGED <<calls, ata_steps>>
       ELSE \E outcome \in AtaOutcomes :
            /\ outcome = "created" => IsPubkey(request.recipient)
            /\ outcome = "exists" => IsPubkey(request.recipient)
            /\ ata_steps' = Append(ata_steps, AtaStep("ensure", outcome))
            /\ calls' = CallsAfterAta(outcome)
            /\ IF outcome = "failed"
               THEN Finish(HTTPException("500", "Failed to create ATA"))
               ELSE /\ response' = response
                    /\ pc' = "d_swap_build"

\* After the unshield: the keypair and client lookups (outside any try),
\* then step 2.5, ensure_ata_exists, whose failures are only logged.  It
\* parses the recipient first, so an unparsable recipient is a failure.
DEnsureAta ==
    /\ pc = "d_ensure_ata"
    /\ UNCHANGED service_vars
    /\ UNCHANGED local_vars
    /\ UNCHANGED <<in_fallback, swap_fail, polls, lookup, swap_executed>>
    /\ IF LoadKeypairRaises
       THEN /\ Finish(Unhandled("RelayerError: Relayer keypair not found"))
            /\ UNCHANGED <<calls, ata_steps>>
       ELSE \E outcome \in AtaOutcomes :
            /\ outcome = "created" => IsPubkey(request.recipient)
            /\ outcome = "exists" => IsPubkey(request.recipient)
            /\ ata_steps' = Append(ata_steps, AtaStep("ensure", outcome))
            /\ calls' = CallsAfterAta(outcome)
            /\ response' = response
            /\ pc' = "d_swap_build"

\* Step 3, first await: the provider builds the swap transaction.
DSwapBuild ==
    /\ pc = "d_swap_build"
    /\ UNCHANGED service_vars
    /\ UNCHANGED local_vars
    /\ UNCHANGED <<calls, polls, lookup, swap_executed, ata_steps>>
    /\ \E ok \in BOOLEAN :
        IF ok
        THEN /\ pc' = "d_swap_send"
             /\ UNCHANGED <<response, in_fallback, swap_fail>>
        ELSE EnterFallback("build")

\* Step 3, second await: sign with the relayer's key and submit.  Whether
\* the chain goes on to execute a transaction it accepted is the chain's
\* choice and is not known to the handler.
DSwapSend ==
    /\ pc = "d_swap_send"
    /\ UNCHANGED service_vars
    /\ UNCHANGED <<variant, request, job, quote, unshield_result,
                   actual_token_amount, i, attempt, sol_amount>>
    /\ UNCHANGED <<polls, lookup, ata_steps>>
    /\ \E ok \in BOOLEAN, executed \in BOOLEAN :
        /\ swap_executed' = (ok /\ executed)
        /\ calls' = Append(calls, Call("swap", RelayerPubkey, job.amount, ok,
                                       IF ok THEN SwapSignature ELSE ""))
        /\ IF ok
           THEN /\ swap_signature' = SwapSignature
                /\ pc' = "d_swap_confirm"
                /\ UNCHANGED <<response, in_fallback, swap_fail>>
           ELSE /\ swap_signature' = swap_signature
                /\ EnterFallback("submit")

\* Step 3, third await: confirmation.  Once confirmed, step 3.5 parses the
\* recipient (outside any try) and starts the arrival check.
DSwapConfirm ==
    /\ pc = "d_swap_confirm"
    /\ UNCHANGED service_vars
    /\ UNCHANGED local_vars
    /\ UNCHANGED <<calls, polls, lookup, swap_executed, ata_steps>>
    /\ \E ok \in BOOLEAN :
        IF ok
        THEN /\ UNCHANGED <<in_fallback, swap_fail>>
             /\ IF IsPubkey(request.recipient)
                THEN /\ pc' = "d_poll"
                     /\ response' = response
                ELSE Finish(Unhandled("ValueError: Pubkey.from_string(request.recipient)"))
        ELSE EnterFallback("confirm")

\* The loop runs once more than max_balance_checks.
DPoll_extraPoll ==
    /\ pc = "d_poll"
    /\ i <= max_balance_checks
    /\ UNCHANGED service_vars
    /\ UNCHANGED <<variant, request, job, quote, unshield_result, swap_signature,
                   attempt, sol_amount>>
    /\ UNCHANGED <<calls, lookup, swap_executed, ata_steps>>
    /\ \E observed \in TokenAmounts \cup {-1} :
        LET amount == IF observed = -1 THEN actual_token_amount ELSE observed
        IN /\ polls' = Append(polls, observed)
           /\ actual_token_amount' = amount
           /\ IF amount > 0
              THEN /\ i' = i
                   /\ pc' = "d_recheck_ata"
                   /\ UNCHANGED <<response, in_fallback, swap_fail>>
              ELSE IF i + 1 <= max_balance_checks
              THEN /\ i' = i + 1
                   /\ pc' = "d_poll"
                   /\ UNCHANGED <<response, in_fallback, swap_fail>>
              ELSE /\ i' = i + 1
                   /\ EnterFallback("none")

\* One iteration of the arrival check: observed is the balance read, -1
\* when the read raises or returns nothing.  The loop ends at the first
\* positive balance or after max_balance_checks reads; a zero result
\* enters the fallback.
DPoll ==
    /\ pc = "d_poll"
    /\ i < max_balance_checks
    /\ UNCHANGED service_vars
    /\ UNCHANGED <<variant, request, job, quote, unshield_result, swap_signature,
                   attempt, sol_amount>>
    /\ UNCHANGED <<calls, lookup, swap_executed, ata_steps>>
    /\ \E observed \in TokenAmounts \cup {-1} :
        LET amount == IF observed = -1 THEN actual_token_amount ELSE observed
        IN /\ polls' = Append(polls, observed)
           /\ actual_token_amount' = amount
           /\ IF amount > 0
              THEN /\ i' = i
                   /\ pc' = "d_recheck_ata"
                   /\ UNCHANGED <<response, in_fallback, swap_fail>>
              ELSE IF i + 1 < max_balance_checks
              THEN /\ i' = i + 1
                   /\ pc' = "d_poll"
                   /\ UNCHANGED <<response, in_fallback, swap_fail>>
              ELSE /\ i' = i + 1
                   /\ EnterFallback("none")

\* The recipient's token account is looked up again and created when it
\* is missing; a failure of the lookup or of the creation is only logged.
DRecheckAta ==
    /\ pc = "d_recheck_ata"
    /\ UNCHANGED service_vars
    /\ UNCHANGED local_vars
    /\ UNCHANGED <<in_fallback, swap_fail, polls, lookup, swap_executed>>
    /\ response' = response
    /\ pc' = "d_transfer"
    /\ \E outcome \in AtaOutcomes :
        /\ ata_steps' = Append(ata_steps, AtaStep("recheck", outcome))
        /\ calls' = CallsAfterAta(outcome)

\* The outcome reports the quote's estimate instead of the balance read.
TransferExhaustedResponse_quoteEstimate ==
    SwapExecuteResponse(unshield_result.signature, swap_signature, "",
                        quote.out_amount, request.output_mint,
                        request.recipient, unshield_result.fee_paid)

\* The outcome when every transfer attempt failed.
TransferExhaustedResponse ==
    SwapExecuteResponse(unshield_result.signature, swap_signature, "",
                        str(actual_token_amount), request.output_mint,
                        request.recipient, unshield_result.fee_paid)

\* The complete flow's outcome leaves the swap signature out.
TransferredResponse_noSwapSignature(transfer_signature) ==
    SwapExecuteResponse(unshield_result.signature, "", transfer_signature,
                        str(actual_token_amount), request.output_mint,
                        request.recipient, unshield_result.fee_paid)

\* The outcome of the complete two-transaction flow.
TransferredResponse(transfer_signature) ==
    SwapExecuteResponse(unshield_result.signature, swap_signature, transfer_signature,
                        str(actual_token_amount), request.output_mint,
                        request.recipient, unshield_result.fee_paid)

\* A failed transfer is retried from the swap submission on.
DTransfer_retriesFromSwap ==
    /\ pc = "d_transfer"
    /\ attempt < MAX_TRANSFER_RETRIES
    /\ UNCHANGED service_vars
    /\ UNCHANGED <<variant, request, job, quote, unshield_result, swap_signature,
                   actual_token_amount, i, sol_amount>>
    /\ UNCHANGED ghost_vars
    /\ \E ok \in BOOLEAN :
        /\ calls' = Append(calls, Call("token_transfer", request.recipient,
                                       actual_token_amount, ok,
                                       IF ok THEN TransferSignature ELSE ""))
        /\ IF ok
           THEN /\ attempt' = attempt
                /\ Finish(TransferredResponse(TransferSignature))
           ELSE /\ attempt' = attempt + 1
                /\ IF attempt + 1 < MAX_TRANSFER_RETRIES
                   THEN /\ pc' = "d_swap_send"
                        /\ response' = response
                   ELSE Finish(TransferExhaustedResponse)

\* The transfer loop makes one attempt more than MAX_TRANSFER_RETRIES.
DTransfer_extraAttempt ==
    /\ pc = "d_transfer"
    /\ attempt <= MAX_TRANSFER_RETRIES
    /\ UNCHANGED service_vars
    /\ UNCHANGED <<variant, request, job, quote, unshield_result, swap_signature,
                   actual_token_amount, i, sol_amount>>
    /\ UNCHANGED ghost_vars
    /\ \E ok \in BOOLEAN :
        /\ calls' = Append(calls, Call("token_transfer", request.recipient,
                                       actual_token_amount, ok,
                                       IF ok THEN TransferSignature ELSE ""))
        /\ IF ok
           THEN /\ attempt' = attempt
                /\ Finish(TransferredResponse(TransferSignature))
           ELSE /\ attempt' = attempt + 1
                /\ IF attempt + 1 <= MAX_TRANSFER_RETRIES
                   THEN /\ pc' = "d_transfer"
                        /\ response' = response
                   ELSE Finish(TransferExhaustedResponse)

\* Step 4: one attempt of the token transfer to the recipient.
DTransfer ==
    /\ pc = "d_transfer"
    /\ attempt < MAX_TRANSFER_RETRIES
    /\ UNCHANGED service_vars
    /\ UNCHANGED <<variant, request, job, quote, unshield_result, swap_signature,
                   actual_token_amount, i, sol_amount>>
    /\ UNCHANGED ghost_vars
    /\ \E ok \in BOOLEAN :
        /\ calls' = Append(calls, Call("token_transfer", request.recipient,
                                       actual_token_amount, ok,
                                       IF ok THEN TransferSignature ELSE ""))
        /\ IF ok
           THEN /\ attempt' = attempt
                /\ Finish(TransferredResponse(TransferSignature))
           ELSE /\ attempt' = attempt + 1
                /\ IF attempt + 1 < MAX_TRANSFER_RETRIES
                   THEN /\ pc' = "d_transfer"
                        /\ response' = response
                   ELSE Finish(TransferExhaustedResponse)

DevnetNext ==
    \/ ExecuteSwapDevnet \/ DFund \/ DQuote \/ DUnshield \/ DEnsureAta
    \/ DSwapBuild \/ DSwapSend \/ DSwapConfirm \/ DPoll \/ DRecheckAta \/ DTransfer

Next == JupiterNext \/ DevnetNext \/ FallbackNext

Spec == Init /\ [][Next]_vars

(***************************************************************************)
(* ProofJobQueue (proof_queue/job_queue.py): submit, the _process_job task *)
(* of each job, and the sweep of old jobs.  Every acquisition of the       *)
(* table's lock is one action; the proof generator's outcome and the       *)
(* passing of time are chosen by the environment.                          *)
(***************************************************************************)
JOB_TTL_HOURS == 1
\* The clock stops after this many hours.
MaxHours == 2

\* The values uuid4 may return.
UUIDs == {"uuid-a", "uuid-b", "uuid-c"}
\* Parameters of submit.  The queue does not validate them; a secret that
\* is not hexadecimal makes the proof generator raise ValidationError.
Commitments == {"c0ffee"}
Secrets == {"5ec2e7", "not-hex"}
SubmitAmounts == {MIN_AMOUNT_LAMPORTS + 1}
SubmitRecipients == {"RecipientWallet"}
Denominations == {0}

\* What the proving core does once the inputs decode: it returns, raises
\* the domain error VeilError, or raises something else.
CoreOutcomes == {"ok", "VeilError", "RuntimeError"}
VeilErrorMessage == "Proof generation failed: invalid witness"
GENERIC_ERROR_MESSAGE == "Proof generation failed unexpectedly"

HexDigits == {"0", "1", "2", "3", "4", "5", "6", "7", "8", "9",
              "a", "b", "c", "d", "e", "f"}
IsHex(h) == \A k \in 1..Len(h) : SubSeq(h, k, k) \in HexDigits

\* hex_to_bytes(value) raises ValueError.
HexToBytesRaises(h) == ~IsHex(h) \/ FromHexRaises(h)

\* An exception object: its class and its message.
Raise(class, message) == [raised |-> class, message |-> message]

\* str(e) of a ValidationError or VeilError: the message it was built with.
str_exception(e) == e.message

\* validate_hex(value, field_name): None, or the ValidationError raised.
validate_hex(value, field_name) ==
    IF HexToBytesRaises(value)
    THEN Raise("ValidationError", "Invalid hex encoding for " \o field_name)
    ELSE None

\* VeilService.generate_proof, with core the outcome of the proving core.
\* An unexpected failure's text may quote the secret it was working on.
generate_proof(commitment, secret, amount, recipient, core) ==
    IF validate_hex(secret, "secret") # None THEN validate_hex(secret, "secret")
    ELSE IF validate_hex(commitment, "commitment") # None
        THEN validate_hex(commitment, "commitment")
    ELSE IF core = "VeilError" THEN Raise("VeilError", VeilErrorMessage)
    ELSE IF core # "ok" THEN Raise(core, "poseidon_hash failed on secret " \o secret)
    ELSE [raised |-> "", proof |-> ValidProofHex, nullifier |-> ValidNullifierHex,
          public_inputs |-> [commitment |-> commitment, nullifier |-> ValidNullifierHex,
                             recipient |-> recipient, amount |-> amount]]

\* dict assignment: table[key] = value
Put(table, key, value) ==
    [k \in DOMAIN table \cup {key} |-> IF k = key THEN value ELSE table[k]]

\* The table without the keys in gone.
Without(table, gone) == [k \in DOMAIN table \ gone |-> table[k]]

\* The record is built without a stage label.
NewProofJob_unlabelled(job_id, commitment, secret, amount, recipient, denomination, created_at) ==
    [id |-> job_id, status |-> "pending", progress |-> 0, stage |-> "",
     created_at |-> created_at, result |-> None, error |-> None,
     commitment |-> commitment, secret |-> secret, amount |-> amount,
     recipient |-> recipient, denomination |-> denomination]

\* ProofJob(id=..., commitment=..., ..., stage="queued"): the record submit
\* builds, with the dataclass defaults for the other fields.
NewProofJob(job_id, commitment, secret, amount, recipient, denomination, created_at) ==
    [id |-> job_id, status |-> "pending", progress |-> 0, stage |-> "queued",
     created_at |-> created_at, result |-> None, error |-> None,
     commitment |-> commitment, secret |-> secret, amount |-> amount,
     recipient |-> recipient, denomination |-> denomination]

\* The arguments of one submit call.
SubmitArguments(commitment, secret, amount, recipient, denomination) ==
    [commitment |-> commitment, secret |-> secret, amount |-> amount,
     recipient |-> recipient, denomination |-> denomination]

\* The task submit creates for the job: not yet run, locals unset.  starts
\* counts how often the task set the job PROCESSING; given keeps the
\* arguments of the submit call that created the task.
NewTask ==
    [pc |-> "created", commitment |-> "", secret |-> "", amount |-> 0,
     recipient |-> "", veil_result |-> None, starts |-> 0, given |-> None]

\* What a reader of the job's record sees of its lifecycle.
Snapshot(j) == [status |-> j.status, progress |-> j.progress, stage |-> j.stage]

\* The record was written: its lifecycle fields are added to the trail
\* written.
Recorded(written, table, job_id) ==
    IF job_id \in DOMAIN table
    THEN [written EXCEPT ![job_id] = Append(@, Snapshot(table[job_id]))]
    ELSE written
Written(table, job_id) == Recorded(trail, table, job_id)

\* The variables of the saga and of the relayer, which the queue leaves alone.
outside_queue_vars == <<relayer_enabled, relayer_keypair, keypair_file, pc, local_vars,
                        response, calls, ghost_vars, relayer_vars, provider_vars,
                        pair_vars>>

QueueInit ==
    /\ relayer_enabled = TRUE
    /\ relayer_keypair = "none"
    /\ keypair_file = TRUE
    /\ jobs = EmptyTable
    /\ pc = "idle"
    /\ variant = "none"
    /\ request = NoRequest
    /\ job = None
    /\ quote = None
    /\ unshield_result = None
    /\ swap_signature = ""
    /\ actual_token_amount = 0
    /\ i = 0
    /\ attempt = 0
    /\ sol_amount = 0
    /\ response = NoResponse
    /\ calls = <<>>
    /\ in_fallback = FALSE
    /\ swap_fail = "none"
    /\ polls = <<>>
    /\ lookup = NoLookup
    /\ swap_executed = FALSE
    /\ ata_steps = <<>>
    /\ fee_bps = relayer_fee_bps
    /\ relayer_reply = NoReplies
    /\ tasks = EmptyTable
    /\ now = 0
    /\ trail = EmptyTable
    /\ ProviderIdle
    /\ PairIdle

\* Every job id is the same.
uuid4_constant == "uuid-a"

\* str(uuid.uuid4()): an id no earlier call returned.
uuid4 == CHOOSE id \in UUIDs : id \notin DOMAIN tasks

\* submit(commitment, secret, amount, recipient, denomination)
submit ==
    /\ UUIDs \ DOMAIN tasks # {}
    /\ \E commitment \in Commitments, secret \in Secrets, amount \in SubmitAmounts,
          recipient \in SubmitRecipients, denomination \in Denominations :
        LET job_id == uuid4
            new_job == NewProofJob(job_id, commitment, secret, amount, recipient,
                                   denomination, now)
        IN /\ jobs' = Put(jobs, job_id, new_job)
           /\ tasks' = Put(tasks, job_id,
                           [NewTask EXCEPT !.given =
                               SubmitArguments(commitment, secret, amount, recipient,
                                               denomination)])
           /\ trail' = Put(trail, job_id, <<Snapshot(new_job)>>)
    /\ UNCHANGED now
    /\ UNCHANGED outside_queue_vars

\* get_status(job_id): the job's record, or None.
get_status(job_id) == IF job_id \in DOMAIN jobs THEN jobs[job_id] ELSE None

\* The progress is written and the stage label is left for a later write.
update_progress_progressOnly(table, job_id, progress, stage) ==
    IF job_id \in DOMAIN table
    THEN [table EXCEPT ![job_id].progress = progress]
    ELSE table

\* update_progress(job_id, progress, stage) called on the table: the table
\* after the call.  The lock is free whenever a coroutine asks for it (no
\* critical section of the queue awaits), so the call never suspends.
update_progress(table, job_id, progress, stage) ==
    IF job_id \in DOMAIN table
    THEN [table EXCEPT ![job_id].progress = progress,
                       ![job_id].stage = IF stage # "" THEN stage ELSE @]
    ELSE table

\* The first critical section sets PROCESSING and copies nothing.
process_job_start_noCapture ==
    \E job_id \in DOMAIN tasks :
        /\ tasks[job_id].pc = "created"
        /\ IF job_id \notin DOMAIN jobs
           THEN /\ tasks' = [tasks EXCEPT ![job_id].pc = "returned"]
                /\ UNCHANGED <<jobs, trail>>
           ELSE LET processing == [jobs EXCEPT ![job_id].status = "processing"]
                IN /\ jobs' = update_progress(processing, job_id, 10, "initializing")
                   /\ tasks' = [tasks EXCEPT ![job_id].pc = "progress_30",
                                             ![job_id].starts = @ + 1]
                   /\ trail' = Recorded(Written(processing, job_id), jobs', job_id)
        /\ UNCHANGED now
        /\ UNCHANGED outside_queue_vars

\* _process_job from its start to its first suspension, the sleep after
\* the first checkpoint: in the first critical section the job is set
\* PROCESSING and its parameters are copied to locals, then
\* update_progress(job_id, 10, "initializing") writes the checkpoint.
\* Neither the lock nor the call suspends the task, so no other coroutine
\* runs between the two writes.
process_job_start ==
    \E job_id \in DOMAIN tasks :
        /\ tasks[job_id].pc = "created"
        /\ IF job_id \notin DOMAIN jobs
           THEN /\ tasks' = [tasks EXCEPT ![job_id].pc = "returned"]
                /\ UNCHANGED <<jobs, trail>>
           ELSE LET processing == [jobs EXCEPT ![job_id].status = "processing"]
                IN /\ jobs' = update_progress(processing, job_id, 10, "initializing")
                   /\ tasks' = [tasks EXCEPT ![job_id].pc = "progress_30",
                                             ![job_id].commitment = jobs[job_id].commitment,
                                             ![job_id].secret = jobs[job_id].secret,
                                             ![job_id].amount = jobs[job_id].amount,
                                             ![job_id].recipient = jobs[job_id].recipient,
                                             ![job_id].starts = @ + 1]
                   /\ trail' = Recorded(Written(processing, job_id), jobs', job_id)
        /\ UNCHANGED now
        /\ UNCHANGED outside_queue_vars

\* The checkpoint reports a progress one checkpoint behind.
Checkpoint_lagging(job_id, at, progress, stage, next) ==
    /\ tasks[job_id].pc = at
    /\ jobs' = update_progress(jobs, job_id, progress - 30, stage)
    /\ tasks' = [tasks EXCEPT ![job_id].pc = next]
    /\ trail' = Written(jobs', job_id)
    /\ UNCHANGED now
    /\ UNCHANGED outside_queue_vars

\* await self.update_progress(job_id, progress, stage) at position at,
\* up to the suspension that follows it (a sleep, or the generator's
\* thread).
Checkpoint(job_id, at, progress, stage, next) ==
    /\ tasks[job_id].pc = at
    /\ jobs' = update_progress(jobs, job_id, progress, stage)
    /\ tasks' = [tasks EXCEPT ![job_id].pc = next]
    /\ trail' = Written(jobs', job_id)
    /\ UNCHANGED now
    /\ UNCHANGED outside_queue_vars

progress_generating_witnesses ==
    \E job_id \in DOMAIN tasks :
        Checkpoint(job_id, "progress_30", 30, "generating_witnesses", "progress_60")
progress_computing_proof ==
    \E job_id \in DOMAIN tasks :
        Checkpoint(job_id, "progress_60", 60, "computing_proof", "generate_proof")

\* A generator call that raised is made again.
ExceptClause_retried(veil_result) ==
    IF veil_result.raised = "" THEN "progress_90" ELSE "generate_proof"

\* Every failure of the generator is handled as a known domain error.
ExceptClause_allKnown(veil_result) ==
    IF veil_result.raised = "" THEN "progress_90" ELSE "except_known"

\* The except clause that catches what generate_proof raised.
ExceptClause(veil_result) ==
    IF veil_result.raised = "" THEN "progress_90"
    ELSE IF veil_result.raised \in {"ValidationError", "VeilError"} THEN "except_known"
    ELSE "except_exception"

\* await asyncio.to_thread(self._veil_service.generate_proof, ...) with the
\* task's local copies.
process_job_generate ==
    \E job_id \in DOMAIN tasks, core \in CoreOutcomes :
        LET t == tasks[job_id]
            veil_result == generate_proof(t.commitment, t.secret, t.amount,
                                          t.recipient, core)
        IN /\ t.pc = "generate_proof"
           /\ tasks' = [tasks EXCEPT ![job_id].veil_result = veil_result,
                                     ![job_id].pc = ExceptClause(veil_result)]
           /\ UNCHANGED <<jobs, now, trail>>
           /\ UNCHANGED outside_queue_vars

progress_verifying_proof ==
    \E job_id \in DOMAIN tasks :
        Checkpoint(job_id, "progress_90", 90, "verifying_proof", "progress_100")

\* The dict stored as the job's result.
StoredResult(veil_result) ==
    [proof |-> veil_result.proof, publicInputs |-> veil_result.public_inputs,
     nullifier |-> veil_result.nullifier, verified |-> TRUE]

\* The status is written in one critical section and the result in a later one.
StoreResult_statusOnly(table, job_id, veil_result) ==
    IF job_id \in DOMAIN table
    THEN [table EXCEPT ![job_id].status = "completed"]
    ELSE table

\* status and result, written in the same critical section.
StoreResult(table, job_id, veil_result) ==
    IF job_id \in DOMAIN table
    THEN [table EXCEPT ![job_id].status = "completed",
                       ![job_id].result = StoredResult(veil_result)]
    ELSE table

\* _process_job from the sleep after the fourth checkpoint to its return:
\* update_progress(job_id, 100, "finalizing") and then, with no suspension
\* between them, the critical section that stores COMPLETED and the result.
progress_finalizing ==
    \E job_id \in DOMAIN tasks :
        LET finalizing == update_progress(jobs, job_id, 100, "finalizing")
        IN /\ tasks[job_id].pc = "progress_100"
           /\ jobs' = StoreResult(finalizing, job_id, tasks[job_id].veil_result)
           /\ tasks' = [tasks EXCEPT ![job_id].pc = "returned"]
           /\ trail' = Recorded(Written(finalizing, job_id), jobs', job_id)
           /\ UNCHANGED now
           /\ UNCHANGED outside_queue_vars

\* A terminal write of an except clause: the table after it.
process_job_finish(job_id, at, table) ==
    /\ tasks[job_id].pc = at
    /\ jobs' = IF job_id \in DOMAIN jobs THEN table ELSE jobs
    /\ tasks' = [tasks EXCEPT ![job_id].pc = "returned"]
    /\ trail' = Written(jobs', job_id)
    /\ UNCHANGED now
    /\ UNCHANGED outside_queue_vars

\* The failed job is put back in line.
FailedJob_requeued(job_id, message) ==
    [jobs EXCEPT ![job_id].status = "pending", ![job_id].error = Some(message)]

\* status = FAILED and the error message, written in one critical section.
FailedJob(job_id, message) ==
    [jobs EXCEPT ![job_id].status = "failed", ![job_id].error = Some(message)]

\* except (ValidationError, VeilError) as e
process_job_known_error ==
    \E job_id \in DOMAIN tasks :
        process_job_finish(job_id, "except_known",
                           FailedJob(job_id, str_exception(tasks[job_id].veil_result)))

\* except Exception
process_job_unexpected_error ==
    \E job_id \in DOMAIN tasks :
        process_job_finish(job_id, "except_exception",
                           FailedJob(job_id, GENERIC_ERROR_MESSAGE))

\* The sweep ignores the job's status.
Expired_anyStatus(j, cutoff) == j.created_at < cutoff

\* The condition of the sweep's comprehension.
Expired(j, cutoff) ==
    j.created_at < cutoff /\ j.status \in {"completed", "failed"}

\* _cleanup_old_jobs: one sweep, run by _cleanup_loop after each sleep.
cleanup_old_jobs ==
    LET cutoff == now - JOB_TTL_HOURS
        expired == {job_id \in DOMAIN jobs : Expired(jobs[job_id], cutoff)}
    IN /\ jobs' = Without(jobs, expired)
       /\ UNCHANGED <<tasks, now, trail>>
       /\ UNCHANGED outside_queue_vars

\* An hour passes.
Tick ==
    /\ now < MaxHours
    /\ now' = now + 1
    /\ UNCHANGED <<jobs, tasks, trail>>
    /\ UNCHANGED outside_queue_vars

QueueNext ==
    \/ submit \/ process_job_start
    \/ progress_generating_witnesses \/ progress_computing_proof
    \/ process_job_generate
    \/ progress_verifying_proof \/ progress_finalizing
    \/ process_job_known_error \/ process_job_unexpected_error
    \/ cleanup_old_jobs \/ Tick

QueueSpec == QueueInit /\ [][QueueNext]_vars

\* A step of the task asyncio.create_task made for job_id.
TaskStep(job_id) ==
    /\ job_id \in DOMAIN tasks
    /\ \/ process_job_start
       \/ progress_generating_witnesses
       \/ progress_computing_proof \/ process_job_generate
       \/ progress_verifying_proof \/ progress_finalizing
       \/ process_job_known_error
       \/ process_job_unexpected_error
    /\ tasks'[job_id].pc # tasks[job_id].pc

\* The event loop runs every task that is ready, the lock is granted in
\* the order it was asked for, and the generator's thread returns or
\* raises: a task that can take its next step takes it.
QueueFairSpec == QueueSpec /\ \A job_id \in UUIDs : WF_vars(TaskStep(job_id))

(***************************************************************************)
(* RelayerService called directly, as api/routes/relay.py does: the fee    *)
(* functions on any amount (FeeSpec), relay_unshield on any nullifier,     *)
(* recipient and amount, and the relayer's public key and balance read     *)
(* for GET /relay/info (RelayerSpec), under any configuration.  Two        *)
(* callers use the one                                                     *)
(* service object: a call that awaits the chain leaves the turn to the     *)
(* other caller, with the keypair already cached.  relayer_reply holds,    *)
(* per caller, the call it made last: its arguments, whether it still      *)
(* awaits the chain, what it handed to the chain and what it gave.         *)
(***************************************************************************)
\* Values of settings.relayer_fee_bps.
FeeBps == {0, relayer_fee_bps, 100}
\* Amounts the fee functions are called with: zero, below and at the
\* minimum fee, and both sides of the amount whose 0.3% reaches it.
FeeAmounts == {0, 1, 4999, 5000, 500000, 1000001, 1666666, 1666667, 3000000, 20000000}
\* len(nullifier)
NullifierLengths == {31, 32, 33}
\* The recipient argument: a chain address, and a string of the accepted
\* length that is none.
RelayRecipients == {"RecipientWallet", "NotBase58Recipient"}
\* The proof argument, in hex: the proof of a completed job, no bytes at
\* all, and a single byte that is no proof.
ProofInputs == {ValidProofHex, "", "c0"}

outside_relayer_vars == <<jobs, pc, local_vars, response, ghost_vars, queue_vars,
                          provider_vars, pair_vars>>

RelayerInit ==
    /\ relayer_enabled \in BOOLEAN
    /\ relayer_keypair = "none"
    /\ keypair_file \in BOOLEAN
    /\ jobs = EmptyTable
    /\ pc = "idle"
    /\ variant = "none"
    /\ request = NoRequest
    /\ job = None
    /\ quote = None
    /\ unshield_result = None
    /\ swap_signature = ""
    /\ actual_token_amount = 0
    /\ i = 0
    /\ attempt = 0
    /\ sol_amount = 0
    /\ response = NoResponse
    /\ calls = <<>>
    /\ in_fallback = FALSE
    /\ swap_fail = "none"
    /\ polls = <<>>
    /\ lookup = NoLookup
    /\ swap_executed = FALSE
    /\ ata_steps = <<>>
    /\ fee_bps \in FeeBps
    /\ relayer_reply = NoReplies
    /\ tasks = EmptyTable
    /\ now = 0
    /\ trail = EmptyTable
    /\ ProviderIdle
    /\ PairIdle

\* relayer.calculate_fee(amount)
CalculateFee(c) ==
    /\ ~relayer_reply[c].awaiting
    /\ \E amount \in FeeAmounts :
        relayer_reply' = [relayer_reply EXCEPT ![c] =
            [op |-> "calculate_fee", awaiting |-> FALSE, amount |-> amount,
             value |-> calculate_fee(amount)]]
    /\ UNCHANGED <<relayer_enabled, relayer_keypair, keypair_file, fee_bps, calls>>
    /\ UNCHANGED outside_relayer_vars

\* relayer.calculate_amount_after_fee(amount)
CalculateAmountAfterFee(c) ==
    /\ ~relayer_reply[c].awaiting
    /\ \E amount \in FeeAmounts :
        relayer_reply' = [relayer_reply EXCEPT ![c] =
            [op |-> "calculate_amount_after_fee", awaiting |-> FALSE, amount |-> amount,
             value |-> calculate_amount_after_fee(amount)]]
    /\ UNCHANGED <<relayer_enabled, relayer_keypair, keypair_file, fee_bps, calls>>
    /\ UNCHANGED outside_relayer_vars

\* The arguments submit_unshield_transaction is called with, besides the
\* nullifier, the payer's keypair and the constant token "SOL".
UnshieldTransaction(destination, amount, proof) ==
    [destination |-> destination, amount |-> amount, proof |-> proof]

\* relay_unshield up to its await: the RelayerError one of the three checks
\* or _load_keypair raises, or None when the call goes on to
\* submit_unshield_transaction; the chain's answer has no part in it.
RaisedBeforeSubmit(nullifier_len, recipient, amount) ==
    LET r == relay_unshield(nullifier_len, recipient, amount, "")
    IN IF r.submitted THEN None ELSE r

\* await relayer.relay_unshield(nullifier, recipient, amount, proof), first
\* turn.  A failed check or a missing keypair file raises at once.
\* Otherwise _load_keypair has cached the keypair, the transaction is
\* handed to submit_unshield_transaction and the call waits for the chain
\* while other callers run.  relay_unshield never reads proof: it hands the
\* bytes over together with the keypair.  submitted is what this call
\* handed over.
RelayUnshield(c) ==
    /\ ~relayer_reply[c].awaiting
    /\ \E nullifier_len \in NullifierLengths, recipient \in RelayRecipients,
          amount \in Amounts, proof \in ProofInputs :
        LET e == RaisedBeforeSubmit(nullifier_len, recipient, amount)
            after == IF e = None THEN "loaded" ELSE relayer_keypair
        IN /\ relayer_keypair' = after
           /\ relayer_reply' = [relayer_reply EXCEPT ![c] =
                [op |-> "relay_unshield", awaiting |-> (e = None),
                 nullifier_len |-> nullifier_len, recipient |-> recipient,
                 amount |-> amount, proof |-> proof,
                 keypair_before |-> relayer_keypair, keypair_after |-> after,
                 submitted |-> IF e = None
                               THEN <<UnshieldTransaction(recipient, amount, proof)>>
                               ELSE <<>>,
                 ok |-> FALSE, message |-> IF e = None THEN "" ELSE e.message,
                 result |-> None]]
    /\ UNCHANGED <<relayer_enabled, keypair_file, fee_bps, calls>>
    /\ UNCHANGED outside_relayer_vars

\* relay_unshield, second turn: the chain answers with a signature, or
\* submit_unshield_transaction raises (chain = ""), and the call returns
\* its RelayResult or raises RelayerError.
RelayUnshieldReturns(c) ==
    /\ relayer_reply[c].op = "relay_unshield"
    /\ relayer_reply[c].awaiting
    /\ \E chain \in UnshieldSignatures \cup {""} :
        LET call == relayer_reply[c]
            r == relay_unshield(call.nullifier_len, call.recipient, call.amount, chain)
        IN relayer_reply' = [relayer_reply EXCEPT ![c].awaiting = FALSE,
                                                  ![c].ok = r.ok,
                                                  ![c].message = r.message,
                                                  ![c].result = r.result]
    /\ UNCHANGED <<relayer_enabled, relayer_keypair, keypair_file, fee_bps, calls>>
    /\ UNCHANGED outside_relayer_vars

\* RelayerInfoResponse(enabled, publicKey, feeBps, balance)
RelayerInfoResponse(enabled, public_key, bps, balance) ==
    [kind |-> "info", enabled |-> enabled, publicKey |-> public_key, feeBps |-> bps,
     balance |-> balance]

\* GET /relay/info, first turn: relayer.get_balance() calls _load_keypair.
\* With no keypair file it raises, the handler takes the balance for 0 and
\* the RelayerError relayer.public_key then raises is not caught.
\* Otherwise the keypair is cached and the call waits for the chain's
\* balance while other callers run; no transaction is made.
GetRelayerInfo(c) ==
    /\ ~relayer_reply[c].awaiting
    /\ IF LoadKeypairRaises
       THEN /\ relayer_reply' = [relayer_reply EXCEPT ![c] =
                [op |-> "get_relayer_info", awaiting |-> FALSE,
                 keypair_before |-> relayer_keypair,
                 response |-> Unhandled("RelayerError: Relayer keypair not found")]]
            /\ relayer_keypair' = relayer_keypair
       ELSE /\ relayer_reply' = [relayer_reply EXCEPT ![c] =
                [op |-> "get_relayer_info", awaiting |-> TRUE,
                 keypair_before |-> relayer_keypair, response |-> NoResponse]]
            /\ relayer_keypair' = "loaded"
    /\ UNCHANGED <<relayer_enabled, keypair_file, fee_bps, calls>>
    /\ UNCHANGED outside_relayer_vars

\* GET /relay/info, second turn: the chain answers with the balance, or
\* the lookup raises (chain = -1) and the balance is reported as 0; the
\* response is built from the service's fields and the cached keypair.
GetRelayerInfoReturns(c) ==
    /\ relayer_reply[c].op = "get_relayer_info"
    /\ relayer_reply[c].awaiting
    /\ \E chain \in Balances \cup {-1} :
        relayer_reply' = [relayer_reply EXCEPT
            ![c].awaiting = FALSE,
            ![c].response = RelayerInfoResponse(relayer_enabled, RelayerPubkey, fee_bps,
                                                IF chain = -1 THEN 0 ELSE chain)]
    /\ UNCHANGED <<relayer_enabled, relayer_keypair, keypair_file, fee_bps, calls>>
    /\ UNCHANGED outside_relayer_vars

CalculateFeeStep == \E c \in RelayCallers : CalculateFee(c)
CalculateAmountAfterFeeStep == \E c \in RelayCallers : CalculateAmountAfterFee(c)
RelayUnshieldStep == \E c \in RelayCallers : RelayUnshield(c)
RelayUnshieldReturnsStep == \E c \in RelayCallers : RelayUnshieldReturns(c)
GetRelayerInfoStep == \E c \in RelayCallers : GetRelayerInfo(c)
GetRelayerInfoReturnsStep == \E c \in RelayCallers : GetRelayerInfoReturns(c)

\* The fee functions, which await nothing.
FeeNext == CalculateFeeStep \/ CalculateAmountAfterFeeStep

FeeSpec == RelayerInit /\ [][FeeNext]_vars

\* The calls that await the chain.
RelayerNext ==
    \/ RelayUnshieldStep \/ RelayUnshieldReturnsStep \/ GetRelayerInfoStep
    \/ GetRelayerInfoReturnsStep

RelayerSpec == RelayerInit /\ [][RelayerNext]_vars

(***************************************************************************)
(* The swap providers' clients called directly (services/raydium_service.py *)
(* and services/jupiter_service.py): RaydiumService's retrying request     *)
(* loop under get_quote and get_token_list, JupiterService's get_quote and *)
(* its cached get_token_list.  What the provider answers and the passing   *)
(* of time are chosen by the environment.  attempt is the loop index of    *)
(* _request_with_retry, calls the HTTP attempts and sleeps of the call in  *)
(* progress, response what the call returned or raised.                    *)
(***************************************************************************)
\* JupiterService._cache_ttl, in seconds.
cache_ttl == 300
\* The clock stops this many seconds after the services were constructed.
MaxSeconds == 450
\* The clock advances between calls in steps of half the cache's lifetime.
ClockSteps == {150}

RETRYABLE_EXCEPTIONS ==
    {"ConnectError", "ConnectTimeout", "ReadTimeout", "WriteTimeout", "SSLError"}

\* What one HTTP attempt gives: a response with a status code and its
\* resp.text (its body is decoded later), or an exception of httpx raised
\* by the client, with the text str(e) gives.
HttpResponse(status, text) ==
    [status |-> status, raises |-> "", body |-> "", text |-> text]
HttpRaises(exc, text) == [status |-> 0, raises |-> exc, body |-> "", text |-> text]
\* Success, a client error, a rate limit, a server error, a timeout of the
\* retryable list and a network error that is not on it.
HttpOutcomes ==
    {HttpResponse(200, ""), HttpResponse(404, "Not Found"),
     HttpResponse(429, "Too Many Requests"), HttpResponse(500, "Internal Server Error"),
     HttpRaises("ReadTimeout", "timed out"), HttpRaises("ReadError", "connection reset")}
\* Bodies of a quote response: a quote, {"success": false}, a body that is
\* not JSON, and JSON without the fields of a quote.
QuoteBodies == {"quote", "no_route", "not_json", "missing_field"}
\* Bodies of a swap-transaction response: a transaction, {"success":
\* false}, a body that is not JSON, and JSON without the transaction.
SwapBodies == {"transaction", "no_transaction", "not_json", "missing_field"}
\* Bodies of a token-list response: a list (possibly empty), or no JSON.
TokenLists == {<<>>, <<"USDC">>, <<"USDC", "BONK">>}
TokenBodies == {"list", "not_json"}

\* RaydiumAPIError(message, is_transient, status_code)
RaydiumAPIError(message, is_transient, status_code) ==
    [kind |-> "error", class |-> "RaydiumAPIError", message |-> message,
     is_transient |-> is_transient, status_code |-> status_code]
\* Any other exception that leaves the method.
Escaped(exc) == [kind |-> "error", class |-> exc]
\* The method returned value.
Returns(value) == [kind |-> "outcome", value |-> value]

\* The log of the call in progress.
HttpAttempt(n, d, outcome) == [op |-> "http", attempt |-> n, delay |-> d, outcome |-> outcome]
Sleep(seconds) == [op |-> "sleep", seconds |-> seconds]

outside_provider_vars ==
    <<relayer_enabled, relayer_keypair, keypair_file, jobs, queue_vars, relayer_vars,
      variant, request, job, quote, unshield_result, swap_signature,
      actual_token_amount, i, sol_amount, ghost_vars, pair_vars>>
\* What neither the request loop nor the handler's reaction to its outcome
\* touches.
outside_request_vars ==
    <<relayer_enabled, relayer_keypair, keypair_file, jobs, queue_vars, relayer_vars,
      variant, request, job, unshield_result, swap_signature, actual_token_amount, i,
      sol_amount, polls, lookup, swap_executed, ata_steps, pair_vars>>

ProviderInit ==
    /\ relayer_enabled = TRUE
    /\ relayer_keypair = "none"
    /\ keypair_file = TRUE
    /\ jobs = EmptyTable
    /\ pc = "idle"
    /\ variant = "none"
    /\ request = NoRequest
    /\ job = None
    /\ quote = None
    /\ unshield_result = None
    /\ swap_signature = ""
    /\ actual_token_amount = 0
    /\ i = 0
    /\ attempt = 0
    /\ sol_amount = 0
    /\ response = NoResponse
    /\ calls = <<>>
    /\ in_fallback = FALSE
    /\ swap_fail = "none"
    /\ polls = <<>>
    /\ lookup = NoLookup
    /\ swap_executed = FALSE
    /\ ata_steps = <<>>
    /\ fee_bps = relayer_fee_bps
    /\ relayer_reply = NoReplies
    /\ tasks = EmptyTable
    /\ now = 0
    /\ trail = EmptyTable
    /\ ProviderIdle
    /\ PairIdle

\* A method of a provider's client is called: what it knows at entry.
\* caught is the exception the try statement around the call has caught
\* when the caller is execute_swap_devnet.
ProviderCall(service, method) ==
    [service |-> service, method |-> method, started_at |-> clock,
     last_fetch |-> fetched[service], caught |-> None]

\* The locals of _request_with_retry as the loop starts.
LoopLocals ==
    /\ attempt' = 0
    /\ delay' = RETRY_DELAY_SECONDS
    /\ last_error' = None
    /\ http_response' = None

\* A RaydiumService method calls _request_with_retry.
StartRequest(method) ==
    /\ pc \in {"idle", "done"}
    /\ provider_call' = ProviderCall("raydium", method)
    /\ LoopLocals
    /\ calls' = <<>>
    /\ response' = NoResponse
    /\ pc' = "request"
    /\ UNCHANGED <<token_cache, token_cache_time, clock, fetched, token_reads>>
    /\ UNCHANGED outside_provider_vars

\* raydium.get_quote(...) and raydium.get_token_list()
RaydiumGetQuote == StartRequest("get_quote")
RaydiumGetTokenList == StartRequest("get_token_list")

\* A 429 is not told apart from the other transient failures.
RateLimitDelay_unchanged(d) == d

\* delay = delay * 2 on a 429 response
RateLimitDelay(d) == d * 2

\* The delay stays at its base value.
NextDelay_constant(d) == d

\* delay *= RETRY_BACKOFF_MULTIPLIER after a sleep
NextDelay(d) == d * RETRY_BACKOFF_MULTIPLIER

\* A wait follows the last attempt too.
HasRetryLeft_afterLast(n) == n <= MAX_RETRIES

\* if attempt < max_retries
HasRetryLeft(n) == n < MAX_RETRIES

\* Every error status is retried.
Classify_retryClientErrors(outcome) ==
    IF outcome.raises \in RETRYABLE_EXCEPTIONS THEN "retry"
    ELSE IF outcome.raises # "" THEN "escape"
    ELSE IF outcome.status >= 400 THEN "retry"
    ELSE "return"

\* The branch of the try statement an attempt's outcome takes: the
\* response is returned, the failure is retried (5xx, 429, an exception of
\* RETRYABLE_EXCEPTIONS), RaydiumAPIError is raised for another 4xx, or
\* an exception no clause catches leaves the loop.
Classify(outcome) ==
    IF outcome.raises \in RETRYABLE_EXCEPTIONS THEN "retry"
    ELSE IF outcome.raises # "" THEN "escape"
    ELSE IF outcome.status >= 500 \/ outcome.status = 429 THEN "retry"
    ELSE IF outcome.status >= 400 THEN "permanent"
    ELSE "return"

\* f"Raydium API error: {resp.status_code} - {resp.text}"
ClientErrorMessage(outcome) ==
    "Raydium API error: " \o str(outcome.status) \o " - " \o outcome.text

\* type(last_error).__name__ and str(last_error) of a retried failure: the
\* HTTPStatusError the loop raises for a 5xx or a 429 response, or the
\* client's own exception.
ErrorTypeName(outcome) ==
    IF outcome.raises # "" THEN outcome.raises ELSE "HTTPStatusError"
ErrorText(outcome) ==
    IF outcome.raises # "" THEN outcome.text
    ELSE IF outcome.status = 429 THEN "Rate limited"
    ELSE "Server error: " \o str(outcome.status)

\* error_msg after the loop: the number of attempts and, when a failure
\* was kept, its type and text.
UnavailableMessage(error) ==
    LET error_msg == "Raydium API unavailable after " \o str(MAX_RETRIES + 1)
                        \o " attempts"
    IN IF error # None
       THEN error_msg \o ": " \o ErrorTypeName(error) \o ": " \o ErrorText(error)
       ELSE error_msg

\* The method raises e.  A direct caller receives it.  In
\* execute_swap_devnet the try statement around the call catches it in the
\* same turn: step 1 ends the request, with 503 for a transient
\* RaydiumAPIError and 502 for anything else; step 3 calls the fallback.
MethodRaises(e) ==
    IF variant = "none"
    THEN /\ Finish(e)
         /\ UNCHANGED <<provider_call, in_fallback, swap_fail>>
    ELSE /\ provider_call' = [provider_call EXCEPT !.caught = e]
         /\ IF provider_call.method = "get_quote"
            THEN /\ DQuoteUnavailable(IF e.class = "RaydiumAPIError" /\ e.is_transient
                                      THEN "503" ELSE "502")
                 /\ UNCHANGED <<in_fallback, swap_fail>>
            ELSE EnterFallback("build")

\* One iteration of the loop of _request_with_retry: the attempt, and the
\* sleep that follows a retryable failure while a retry is left.  attempt
\* is the loop index: it moves on while range(max_retries + 1) has another
\* value, and after the last iteration the transient error is raised.
RequestAttempt ==
    /\ pc = "request"
    /\ attempt <= MAX_RETRIES
    /\ UNCHANGED <<token_cache, token_cache_time, clock, fetched, token_reads, quote>>
    /\ UNCHANGED outside_request_vars
    /\ \E outcome \in HttpOutcomes :
        LET d == IF outcome.status = 429 THEN RateLimitDelay(delay) ELSE delay
            sent == Append(calls, HttpAttempt(attempt, delay, outcome))
            branch == Classify(outcome)
        IN
        IF branch = "return"
        THEN /\ http_response' = outcome
             /\ calls' = sent
             /\ pc' = "decode"
             /\ UNCHANGED <<attempt, delay, last_error, response, provider_call,
                            in_fallback, swap_fail>>
        ELSE IF branch = "permanent"
        THEN /\ calls' = sent
             /\ MethodRaises(RaydiumAPIError(ClientErrorMessage(outcome), FALSE,
                                             outcome.status))
             /\ UNCHANGED <<attempt, delay, last_error, http_response>>
        ELSE IF branch = "escape"
        THEN /\ calls' = sent
             /\ MethodRaises(Escaped(outcome.raises))
             /\ UNCHANGED <<attempt, delay, last_error, http_response>>
        ELSE /\ last_error' = outcome
             /\ http_response' = http_response
             /\ IF HasRetryLeft(attempt)
                THEN /\ calls' = Append(sent, Sleep(d))
                     /\ delay' = NextDelay(d)
                ELSE /\ calls' = sent
                     /\ delay' = d
             /\ IF attempt + 1 < MAX_RETRIES + 1
                THEN /\ attempt' = attempt + 1
                     /\ pc' = "request"
                     /\ UNCHANGED <<response, provider_call, in_fallback, swap_fail>>
                ELSE /\ attempt' = attempt
                     /\ MethodRaises(RaydiumAPIError(UnavailableMessage(outcome), TRUE,
                                                     503))

\* get_quote after the request: resp.json(), the check for a route, and
\* the fields of the quote.
QuoteOf(body) ==
    IF body = "not_json" THEN Escaped("JSONDecodeError")
    ELSE IF body = "no_route"
        THEN RaydiumAPIError("Raydium quote failed - no route found", FALSE, 400)
    ELSE IF body = "missing_field" THEN Escaped("KeyError")
    ELSE Returns("quote")

\* get_quote returns the quote.  execute_swap_devnet keeps it and goes on
\* in the same turn to step 1.5, which parses the output mint outside any
\* try.
QuoteReturns ==
    /\ UNCHANGED <<provider_call, in_fallback, swap_fail>>
    /\ IF variant = "none"
       THEN /\ Finish(Returns("quote"))
            /\ quote' = quote
       ELSE /\ \E out \in QuoteOutAmounts : quote' = [out_amount |-> out]
            /\ IF IsPubkey(request.output_mint)
               THEN /\ pc' = "d_unshield"
                    /\ response' = response
               ELSE Finish(Unhandled("ValueError: Pubkey.from_string(request.output_mint)"))

\* RaydiumService.get_quote, from the response on.
ParseQuote ==
    /\ pc = "decode"
    /\ provider_call.method = "get_quote"
    /\ \E body \in QuoteBodies :
        /\ http_response' = [http_response EXCEPT !.body = body]
        /\ IF QuoteOf(body).kind = "error"
           THEN /\ MethodRaises(QuoteOf(body))
                /\ quote' = quote
           ELSE QuoteReturns
    /\ UNCHANGED <<attempt, delay, last_error, calls, token_cache,
                   token_cache_time, clock, fetched, token_reads>>
    /\ UNCHANGED outside_request_vars

\* get_swap_transaction after the request: resp.json(), the check for
\* success, and the decoding of the transaction.
SwapTransactionOf(body) ==
    IF body = "not_json" THEN Escaped("JSONDecodeError")
    ELSE IF body = "no_transaction"
        THEN RaydiumAPIError("Failed to build Raydium swap transaction", FALSE, 400)
    ELSE IF body = "missing_field" THEN Escaped("KeyError")
    ELSE Returns("transaction")

\* RaydiumService.get_swap_transaction, from the response on, as step 3 of
\* execute_swap_devnet calls it: with the transaction in hand the handler
\* signs it and submits it; every exception is caught by the try statement
\* of step 3.
ParseSwapTransaction ==
    /\ pc = "decode"
    /\ provider_call.method = "get_swap_transaction"
    /\ \E body \in SwapBodies :
        /\ http_response' = [http_response EXCEPT !.body = body]
        /\ IF SwapTransactionOf(body).kind = "error"
           THEN MethodRaises(SwapTransactionOf(body))
           ELSE /\ pc' = "d_swap_send"
                /\ UNCHANGED <<response, provider_call, in_fallback, swap_fail>>
    /\ UNCHANGED <<attempt, delay, last_error, calls, token_cache,
                   token_cache_time, clock, fetched, token_reads, quote>>
    /\ UNCHANGED outside_request_vars

\* RaydiumService.get_token_list, from the response on: nothing is kept.
ParseTokenList ==
    /\ pc = "decode"
    /\ provider_call.method = "get_token_list"
    /\ \E body \in TokenBodies, tokens \in TokenLists :
        /\ http_response' = [http_response EXCEPT !.body = body]
        /\ IF body = "not_json"
           THEN /\ Finish(Escaped("JSONDecodeError"))
                /\ fetched' = fetched
           ELSE /\ Finish(Returns(tokens))
                /\ fetched' = IF tokens = <<>> THEN fetched
                              ELSE [fetched EXCEPT !["raydium"] = Some(clock)]
    /\ UNCHANGED <<provider_call, attempt, delay, last_error, calls, token_cache,
                   token_cache_time, clock, token_reads>>
    /\ UNCHANGED outside_provider_vars

\* What a single request of JupiterService gives before its body is used:
\* the exception that leaves the method, or None.
JupiterRequestRaises(outcome, body) ==
    IF outcome.raises # "" THEN Escaped(outcome.raises)
    ELSE IF outcome.status >= 400 THEN Escaped("HTTPStatusError")
    ELSE IF body = "not_json" THEN Escaped("JSONDecodeError")
    ELSE None

\* JupiterService.get_quote: one request, raise_for_status, resp.json()
\* and the fields of the quote; nothing is caught.
JupiterGetQuote ==
    /\ pc \in {"idle", "done"}
    /\ provider_call' = ProviderCall("jupiter", "get_quote")
    /\ LoopLocals
    /\ \E outcome \in HttpOutcomes, body \in QuoteBodies :
        /\ calls' = <<HttpAttempt(0, 0, outcome)>>
        /\ IF JupiterRequestRaises(outcome, body) # None
           THEN Finish(JupiterRequestRaises(outcome, body))
           ELSE IF body = "quote" THEN Finish(Returns("quote"))
           ELSE Finish(Escaped("KeyError"))
    /\ UNCHANGED <<token_cache, token_cache_time, clock, fetched, token_reads>>
    /\ UNCHANGED outside_provider_vars

\* if self._token_cache and (now - self._token_cache_time) < self._cache_ttl
CacheFresh(t) == token_cache # <<>> /\ (t - token_cache_time) < cache_ttl

\* JupiterService.get_token_list up to its await: now = time.time(), then
\* the cached list if it is fresh, otherwise the request is sent and the
\* call waits for the answer holding the now it read.
JupiterGetTokenList(r) ==
    /\ token_reads[r].pc \in {"idle", "done"}
    /\ token_reads' = [token_reads EXCEPT ![r] =
          IF CacheFresh(clock)
          THEN [pc |-> "done", now |-> clock, last_fetch |-> fetched["jupiter"],
                requested |-> FALSE, result |-> Returns(token_cache)]
          ELSE [pc |-> "awaiting", now |-> clock, last_fetch |-> fetched["jupiter"],
                requested |-> TRUE, result |-> NoResponse]]
    /\ UNCHANGED <<provider_call, delay, last_error, http_response, token_cache,
                   token_cache_time, clock, fetched>>
    /\ UNCHANGED <<pc, attempt, response, calls>>
    /\ UNCHANGED outside_provider_vars

\* JupiterService.get_token_list from the answer on: raise_for_status and
\* resp.json() may raise; otherwise the list is kept, stamped with the now
\* the call read before it waited, whatever the cache holds by then.
JupiterTokenListResponse(r) ==
    /\ token_reads[r].pc = "awaiting"
    /\ \E outcome \in HttpOutcomes, body \in TokenBodies, tokens \in TokenLists :
        IF JupiterRequestRaises(outcome, body) # None
        THEN /\ token_reads' = [token_reads EXCEPT ![r].pc = "done",
                                   ![r].result = JupiterRequestRaises(outcome, body)]
             /\ UNCHANGED <<token_cache, token_cache_time, fetched>>
        ELSE /\ token_cache' = tokens
             /\ token_cache_time' = token_reads[r].now
             /\ fetched' = IF tokens = <<>> THEN fetched
                           ELSE [fetched EXCEPT !["jupiter"] = Some(clock)]
             /\ token_reads' = [token_reads EXCEPT ![r].pc = "done",
                                   ![r].result = Returns(tokens)]
    /\ UNCHANGED <<provider_call, delay, last_error, http_response, clock>>
    /\ UNCHANGED <<pc, attempt, response, calls>>
    /\ UNCHANGED outside_provider_vars

\* Time passes: between two calls, and while a get_token_list waits for
\* its answer.
ClockTick ==
    /\ pc \in {"idle", "done"}
    /\ \E step \in ClockSteps :
        /\ clock + step <= Epoch + MaxSeconds
        /\ clock' = clock + step
    /\ UNCHANGED <<provider_call, delay, last_error, http_response, token_cache,
                   token_cache_time, fetched, token_reads>>
    /\ UNCHANGED <<pc, attempt, response, calls>>
    /\ UNCHANGED outside_provider_vars

ProviderNext ==
    \/ RaydiumGetQuote \/ RaydiumGetTokenList \/ RequestAttempt \/ ParseQuote
    \/ ParseTokenList \/ JupiterGetQuote \/ ClockTick

ProviderSpec == ProviderInit /\ [][ProviderNext]_vars

\* The calls of JupiterService.get_token_list, which share the cache of
\* the one service object: a call may be entered while another waits.
JupiterGetTokenListStep == \E r \in TokenReaders : JupiterGetTokenList(r)
JupiterTokenListResponseStep == \E r \in TokenReaders : JupiterTokenListResponse(r)

TokenListNext ==
    \/ JupiterGetTokenListStep \/ JupiterTokenListResponseStep \/ ClockTick

TokenListSpec == ProviderInit /\ [][TokenListNext]_vars

(***************************************************************************)
(* One run of execute_swap_devnet with its two calls of the provider spelt *)
(* out: step 1 (get_quote) and step 3 (get_swap_transaction) run the       *)
(* request loop, and what either raises is caught by the handler's try     *)
(* statement in the same turn.  The run is followed from the request to    *)
(* the submission of the swap transaction and through the fallback; calls  *)
(* holds the HTTP attempts and sleeps of the provider call last begun and  *)
(* the transactions submitted after it.                                    *)
(***************************************************************************)
\* The request of the run: a completed job, a recipient and a mint that are
\* chain addresses.
RunRequests ==
    [job_id : JobIds, recipient : {"RecipientWallet"}, output_mint : {"OutputMint"}]
RunJobs ==
    {ProofJob("completed", 100, "finalizing",
              ProofResult(ValidProofHex, ValidNullifierHex), None, a, 0) : a \in Amounts}

DevnetRunInit ==
    /\ relayer_enabled = TRUE
    /\ relayer_keypair = "none"
    /\ keypair_file = TRUE
    /\ jobs \in [JobIds -> RunJobs]
    /\ pc = "idle"
    /\ variant = "none"
    /\ request = NoRequest
    /\ job = None
    /\ quote = None
    /\ unshield_result = None
    /\ swap_signature = ""
    /\ actual_token_amount = 0
    /\ i = 0
    /\ attempt = 0
    /\ sol_amount = 0
    /\ response = NoResponse
    /\ calls = <<>>
    /\ in_fallback = FALSE
    /\ swap_fail = "none"
    /\ polls = <<>>
    /\ lookup = NoLookup
    /\ swap_executed = FALSE
    /\ ata_steps = <<>>
    /\ fee_bps = relayer_fee_bps
    /\ relayer_reply = NoReplies
    /\ tasks = EmptyTable
    /\ now = 0
    /\ trail = EmptyTable
    /\ ProviderIdle
    /\ PairIdle

\* POST /swap/execute-devnet arrives.
DevnetRunBegins ==
    /\ pc = "idle"
    /\ \E req \in RunRequests : Begin("devnet", req)

\* The handler calls a method of RaydiumService, which enters
\* _request_with_retry.
RequestInRun(at, method) ==
    /\ pc = at
    /\ provider_call' = ProviderCall("raydium", method)
    /\ LoopLocals
    /\ calls' = <<>>
    /\ pc' = "request"
    /\ response' = response
    /\ UNCHANGED <<token_cache, token_cache_time, clock, fetched, token_reads>>
    /\ UNCHANGED outside_provider_vars

\* Step 1: raydium.get_quote(...); step 3: raydium.get_swap_transaction(...)
DQuoteRequest == RequestInRun("d_quote", "get_quote")
DSwapBuildRequest == RequestInRun("d_swap_build", "get_swap_transaction")

DevnetRunNext ==
    \/ DevnetRunBegins \/ DFund \/ DQuoteRequest \/ RequestAttempt \/ ParseQuote
    \/ DUnshield \/ DEnsureAta \/ DSwapBuildRequest \/ ParseSwapTransaction
    \/ FBalance \/ FSend

DevnetRunSpec == DevnetRunInit /\ [][DevnetRunNext]_vars

(***************************************************************************)
(* Two runs of execute_swap_devnet side by side, each from step 0 on, for  *)
(* the same output mint, under the default settings (a devnet RPC URL):    *)
(* they share the relayer's SOL balance and the relayer's token account,   *)
(* which every run reads and spends as a whole.  Every await of a run is   *)
(* one step, so the other run may act between any two of them.  The chain  *)
(* applies each transaction atomically; which run moves next, and whether  *)
(* a call or a transaction succeeds, is the environment's choice.          *)
(***************************************************************************)
SagaIds == {"A", "B"}
\* job.amount of each run and the tokens its own swap yields.
SagaAmount == [s \in SagaIds |-> IF s = "A" THEN MIN_AMOUNT_LAMPORTS + 1 ELSE 3000000]
SagaSwapOut == [s \in SagaIds |-> IF s = "A" THEN 5 ELSE 9]
\* The relayer's own SOL before either request.
RelayerSolAtStart == 6000
\* The faucet grants an airdrop while the balance stays within this many
\* lamports.
MaxLamports == 2100000000

\* A run's locals before step 0, and what is recorded of it: whether the
\* chain executed its swap, how many reads of the arrival check failed,
\* which await of step 3 raised, what it transferred and sent.
SagaAtStart(s) ==
    [pc |-> "fund", amount |-> SagaAmount[s], fee |-> 0, executed |-> FALSE,
     actual_token_amount |-> 0, i |-> 0, attempt |-> 0, sol_amount |-> 0,
     fallback |-> FALSE, swap_fail |-> "none", failed_reads |-> 0,
     transferred |-> 0, sent_sol |-> 0]

outside_pair_vars ==
    <<relayer_enabled, relayer_keypair, keypair_file, jobs, queue_vars, relayer_vars,
      provider_vars, pc, local_vars, response, calls, ghost_vars>>

PairInit ==
    /\ relayer_enabled = TRUE
    /\ relayer_keypair = "loaded"
    /\ keypair_file = TRUE
    /\ jobs = EmptyTable
    /\ pc = "idle"
    /\ variant = "none"
    /\ request = NoRequest
    /\ job = None
    /\ quote = None
    /\ unshield_result = None
    /\ swap_signature = ""
    /\ actual_token_amount = 0
    /\ i = 0
    /\ attempt = 0
    /\ sol_amount = 0
    /\ response = NoResponse
    /\ calls = <<>>
    /\ in_fallback = FALSE
    /\ swap_fail = "none"
    /\ polls = <<>>
    /\ lookup = NoLookup
    /\ swap_executed = FALSE
    /\ ata_steps = <<>>
    /\ fee_bps = relayer_fee_bps
    /\ relayer_reply = NoReplies
    /\ tasks = EmptyTable
    /\ now = 0
    /\ trail = EmptyTable
    /\ ProviderIdle
    /\ saga = [s \in SagaIds |-> SagaAtStart(s)]
    /\ relayer_tokens = 0
    /\ relayer_sol = RelayerSolAtStart

\* Step 0, ensure_relayer_funded up to its second await: the relayer's
\* balance is read; below MIN_RELAYER_BALANCE_LAMPORTS an airdrop is
\* requested next.  A failed read is logged and the run goes on.
PairFund(s) ==
    /\ saga[s].pc = "fund"
    /\ \E ok \in BOOLEAN :
        saga' = [saga EXCEPT ![s].pc =
                    IF ok /\ relayer_sol < MIN_RELAYER_BALANCE_LAMPORTS
                    THEN "airdrop" ELSE "quote"]
    /\ UNCHANGED <<relayer_sol, relayer_tokens>>
    /\ UNCHANGED outside_pair_vars

\* Step 0, request_airdrop: the faucet credits AIRDROP_AMOUNT_LAMPORTS, or
\* refuses and the failure is logged.
PairAirdrop(s) ==
    /\ saga[s].pc = "airdrop"
    /\ \E ok \in BOOLEAN :
        relayer_sol' = IF ok /\ relayer_sol <= MaxLamports - AIRDROP_AMOUNT_LAMPORTS
                       THEN relayer_sol + AIRDROP_AMOUNT_LAMPORTS
                       ELSE relayer_sol
    /\ saga' = [saga EXCEPT ![s].pc = "quote"]
    /\ relayer_tokens' = relayer_tokens
    /\ UNCHANGED outside_pair_vars

\* Step 1: the quote; a failure ends the request before the unshield.
PairQuote(s) ==
    /\ saga[s].pc = "quote"
    /\ \E ok \in BOOLEAN :
        saga' = [saga EXCEPT ![s].pc = IF ok THEN "unshield" ELSE "done"]
    /\ UNCHANGED <<relayer_sol, relayer_tokens>>
    /\ UNCHANGED outside_pair_vars

\* Step 2: relay_unshield to the relayer's own account credits job.amount.
PairUnshield(s) ==
    /\ saga[s].pc = "unshield"
    /\ \E ok \in BOOLEAN :
        IF ok
        THEN /\ relayer_sol' = relayer_sol + saga[s].amount
             /\ saga' = [saga EXCEPT ![s].pc = "swap_build",
                                     ![s].fee = calculate_fee(saga[s].amount)]
        ELSE /\ relayer_sol' = relayer_sol
             /\ saga' = [saga EXCEPT ![s].pc = "done"]
    /\ relayer_tokens' = relayer_tokens
    /\ UNCHANGED outside_pair_vars

\* Step 3, first await: the swap transaction is built, or the provider
\* raises and the fallback is entered.
PairSwapBuild(s) ==
    /\ saga[s].pc = "swap_build"
    /\ \E ok \in BOOLEAN :
        saga' = IF ok THEN [saga EXCEPT ![s].pc = "swap_send"]
                ELSE [saga EXCEPT ![s].pc = "f_balance", ![s].fallback = TRUE,
                                  ![s].swap_fail = "build"]
    /\ UNCHANGED <<relayer_sol, relayer_tokens>>
    /\ UNCHANGED outside_pair_vars

\* Step 3, second await: the transaction is submitted.  A transaction the
\* chain accepted and executes turns job.amount of SOL into tokens in the
\* relayer's token account; a refused submission enters the fallback.
PairSwapSend(s) ==
    /\ saga[s].pc = "swap_send"
    /\ \E ok \in BOOLEAN, executed \in BOOLEAN :
        IF ok /\ executed /\ relayer_sol >= saga[s].amount
        THEN /\ relayer_sol' = relayer_sol - saga[s].amount
             /\ relayer_tokens' = relayer_tokens + SagaSwapOut[s]
             /\ saga' = [saga EXCEPT ![s].pc = "swap_confirm", ![s].executed = TRUE]
        ELSE /\ UNCHANGED <<relayer_sol, relayer_tokens>>
             /\ saga' = IF ok THEN [saga EXCEPT ![s].pc = "swap_confirm"]
                        ELSE [saga EXCEPT ![s].pc = "f_balance", ![s].fallback = TRUE,
                                          ![s].swap_fail = "submit"]
    /\ UNCHANGED outside_pair_vars

\* Step 3, third await: confirm_transaction returns and the arrival check
\* starts, or it raises and the fallback is entered, whatever the chain
\* did with the transaction.
PairSwapConfirm(s) ==
    /\ saga[s].pc = "swap_confirm"
    /\ \E ok \in BOOLEAN :
        saga' = IF ok THEN [saga EXCEPT ![s].pc = "poll"]
                ELSE [saga EXCEPT ![s].pc = "f_balance", ![s].fallback = TRUE,
                                  ![s].swap_fail = "confirm"]
    /\ UNCHANGED <<relayer_sol, relayer_tokens>>
    /\ UNCHANGED outside_pair_vars

\* Step 3.5, one iteration: the balance of the relayer's token account
\* becomes actual_token_amount, unless the read raises or returns no
\* value; a positive balance ends the loop, and max_balance_checks
\* iterations without one enter the fallback.
PairPoll(s) ==
    /\ saga[s].pc = "poll"
    /\ saga[s].i < max_balance_checks
    /\ \E ok \in BOOLEAN :
        LET amount == IF ok THEN relayer_tokens ELSE saga[s].actual_token_amount
            failed == saga[s].failed_reads + (IF ok THEN 0 ELSE 1)
        IN saga' = IF amount > 0
                   THEN [saga EXCEPT ![s].actual_token_amount = amount,
                                     ![s].failed_reads = failed,
                                     ![s].pc = "transfer"]
                   ELSE IF saga[s].i + 1 < max_balance_checks
                   THEN [saga EXCEPT ![s].actual_token_amount = amount,
                                     ![s].failed_reads = failed,
                                     ![s].i = saga[s].i + 1]
                   ELSE [saga EXCEPT ![s].actual_token_amount = amount,
                                     ![s].failed_reads = failed,
                                     ![s].i = saga[s].i + 1,
                                     ![s].pc = "f_balance", ![s].fallback = TRUE]
    /\ UNCHANGED <<relayer_sol, relayer_tokens>>
    /\ UNCHANGED outside_pair_vars

\* Step 4, one attempt: actual_token_amount tokens go from the relayer's
\* token account to the recipient's; the chain refuses more than the
\* account holds.
PairTransfer(s) ==
    /\ saga[s].pc = "transfer"
    /\ saga[s].attempt < MAX_TRANSFER_RETRIES
    /\ \E ok \in BOOLEAN :
        IF ok /\ relayer_tokens >= saga[s].actual_token_amount
        THEN /\ relayer_tokens' = relayer_tokens - saga[s].actual_token_amount
             /\ saga' = [saga EXCEPT ![s].transferred = saga[s].actual_token_amount,
                                     ![s].pc = "done"]
        ELSE /\ relayer_tokens' = relayer_tokens
             /\ saga' = [saga EXCEPT ![s].attempt = saga[s].attempt + 1,
                                     ![s].pc = IF saga[s].attempt + 1 < MAX_TRANSFER_RETRIES
                                               THEN "transfer" ELSE "done"]
    /\ relayer_sol' = relayer_sol
    /\ UNCHANGED outside_pair_vars

\* The fallback's balance lookup and sizing.
PairFallbackBalance(s) ==
    /\ saga[s].pc = "f_balance"
    /\ \E ok \in BOOLEAN :
        IF ok
        THEN LET amount == FallbackSafeAmount(relayer_sol, saga[s].amount, saga[s].fee)
             IN saga' = [saga EXCEPT ![s].sol_amount = amount,
                                     ![s].pc = IF InsufficientForFallback(amount)
                                               THEN "done" ELSE "f_send"]
        ELSE saga' = [saga EXCEPT
                        ![s].sol_amount = FallbackAmountWithoutBalance(saga[s].amount,
                                                                       saga[s].fee),
                        ![s].pc = "f_send"]
    /\ UNCHANGED <<relayer_sol, relayer_tokens>>
    /\ UNCHANGED outside_pair_vars

\* send_sol_to_recipient: sol_amount lamports leave the relayer's account,
\* or the transfer raises.
PairFallbackSend(s) ==
    /\ saga[s].pc = "f_send"
    /\ \E ok \in BOOLEAN :
        IF ok /\ relayer_sol >= saga[s].sol_amount
        THEN /\ relayer_sol' = relayer_sol - saga[s].sol_amount
             /\ saga' = [saga EXCEPT ![s].sent_sol = saga[s].sol_amount, ![s].pc = "done"]
        ELSE /\ relayer_sol' = relayer_sol
             /\ saga' = [saga EXCEPT ![s].pc = "done"]
    /\ relayer_tokens' = relayer_tokens
    /\ UNCHANGED outside_pair_vars

PairFundStep == \E s \in SagaIds : PairFund(s)
PairAirdropStep == \E s \in SagaIds : PairAirdrop(s)
PairQuoteStep == \E s \in SagaIds : PairQuote(s)
PairUnshieldStep == \E s \in SagaIds : PairUnshield(s)
PairSwapBuildStep == \E s \in SagaIds : PairSwapBuild(s)
PairSwapSendStep == \E s \in SagaIds : PairSwapSend(s)
PairSwapConfirmStep == \E s \in SagaIds : PairSwapConfirm(s)
PairPollStep == \E s \in SagaIds : PairPoll(s)
PairTransferStep == \E s \in SagaIds : PairTransfer(s)
PairFallbackBalanceStep == \E s \in SagaIds : PairFallbackBalance(s)
PairFallbackSendStep == \E s \in SagaIds : PairFallbackSend(s)

PairNext ==
    \/ PairFundStep \/ PairAirdropStep \/ PairQuoteStep \/ PairUnshieldStep
    \/ PairSwapBuildStep \/ PairSwapSendStep \/ PairSwapConfirmStep
    \/ PairPollStep \/ PairTransferStep
    \/ PairFallbackBalanceStep \/ PairFallbackSendStep

PairSpec == PairInit /\ [][PairNext]_vars

(***************************************************************************)
(* Properties of the saga.                                                 *)
(***************************************************************************)
CallIndexes == 1..Len(calls)
Returned == pc = "done" /\ response.kind = "outcome"
Raised == pc = "done" /\ response.kind = "error"
TransactionOps == {"relay_unshield", "swap", "token_transfer", "sol_transfer"}
QuoteFailed == \E k \in CallIndexes : calls[k].op = "get_quote" /\ ~calls[k].ok
Submitted(op) == \E k \in CallIndexes : calls[k].op = op

\* C1: relay_unshield is invoked only after a successful get_quote, and a
\* run whose quote failed ends with an error, has submitted no unshield,
\* swap, token-transfer or fallback transaction and holds no unshield
\* signature.
C1_UnshieldOnlyAfterQuote ==
    /\ \A k \in CallIndexes :
        calls[k].op = "relay_unshield"
            => \E j \in 1..(k - 1) : calls[j].op = "get_quote" /\ calls[j].ok
    /\ QuoteFailed =>
        /\ Raised
        /\ \A k \in CallIndexes : calls[k].op \notin TransactionOps
        /\ unshield_result = None

C1_Witness ==
    /\ variant = "devnet"
    /\ QuoteFailed
    /\ Raised

\* C2: every outcome the saga returns carries the signature relay_unshield
\* returned, and that signature is not empty.
C2_OutcomeCarriesUnshieldSignature ==
    Returned =>
        /\ unshield_result # None
        /\ response.unshieldSignature # ""
        /\ response.unshieldSignature = unshield_result.signature
        /\ \E k \in CallIndexes :
            /\ calls[k].op = "relay_unshield"
            /\ calls[k].ok
            /\ calls[k].sig = response.unshieldSignature

\* The fallback transfer failed after the swap failed.
C2_Witness ==
    /\ Returned
    /\ in_fallback
    /\ swap_fail = "confirm"
    /\ calls[Len(calls)].op = "sol_transfer"
    /\ ~calls[Len(calls)].ok
    /\ response.unshieldSignature = "sigUnshieldB"

\* C3 (as claimed): once relay_unshield has succeeded, the run ends with an
\* outcome and never by raising.
C3_TerminalOutcomeAfterUnshield ==
    (pc = "done" /\ unshield_result # None) => response.kind = "outcome"

\* C4: a request whose job is missing, not COMPLETED, or lacks the proof
\* or the nullifier fails with an HTTP error before any external call.
JobReady(job_id) ==
    /\ job_id \in DOMAIN jobs
    /\ jobs[job_id].status = "completed"
    /\ jobs[job_id].result # None
    /\ jobs[job_id].result.proof # ""
    /\ jobs[job_id].result.nullifier # ""

C4_NoFundsWithoutCompletedJob ==
    (pc # "idle" /\ ~JobReady(request.job_id)) =>
        /\ Raised
        /\ response.handled
        /\ calls = <<>>
        /\ unshield_result = None

C4_Witness ==
    /\ pc = "done"
    /\ relayer_enabled
    /\ request.job_id \in DOMAIN jobs
    /\ jobs[request.job_id].status = "completed"
    /\ jobs[request.job_id].result # None
    /\ jobs[request.job_id].result.proof = ""
    /\ response.kind = "error"

\* C5: relay_unshield is always called with the relayer's own account as
\* destination; funds reach a recipient that is not the relayer only by the
\* token transfer or the fallback transfer.
C5_UnshieldToCustodialAccount ==
    \A k \in CallIndexes :
        /\ calls[k].op = "relay_unshield" => calls[k].dest = RelayerPubkey
        /\ (/\ calls[k].op \in TransactionOps
            /\ request.recipient # RelayerPubkey
            /\ calls[k].dest = request.recipient)
                => calls[k].op \in {"token_transfer", "sol_transfer"}

C5_Witness ==
    /\ request.recipient = "RecipientWallet"
    /\ \E k \in CallIndexes :
        calls[k].op = "relay_unshield" /\ calls[k].ok /\ calls[k].dest = RelayerPubkey
    /\ \E k \in CallIndexes :
        calls[k].op = "token_transfer" /\ calls[k].ok /\ calls[k].dest = "RecipientWallet"

\* The run's fallback transfer, as submitted: its amount and whether the
\* submission succeeded.
FallbackTransfers == {k \in CallIndexes : calls[k].op = "sol_transfer"}
IntendedAmount == job.amount - unshield_result.fee_paid
UnshieldOnlyShape ==
    /\ response.kind = "outcome"
    /\ response.unshieldSignature # ""
    /\ response.swapSignature = ""
    /\ response.transferSignature = ""
    /\ response.outputAmount = "0"

\* C6 (as claimed): in every variant a swap step that fails after the
\* unshield makes the saga enter the fallback.
C6_SwapFailureEntersFallback ==
    (pc = "done" /\ swap_fail # "none") => in_fallback

\* C6 (amended): in execute_swap_devnet a failed swap step enters the
\* fallback, which for a parseable recipient looks the balance up and
\* submits a transfer of the sized amount to the recipient exactly when
\* that amount is positive; in execute_swap a failed swap step returns the
\* unshield-only outcome with no fallback and no transfer.
C6_SwapFailureFallbackDevnetOnly ==
    (pc = "done" /\ swap_fail # "none") =>
        /\ variant = "devnet" =>
            /\ in_fallback
            /\ IsPubkey(request.recipient) =>
                /\ lookup.done
                /\ (sol_amount > 0) <=>
                    \E k \in FallbackTransfers :
                        /\ calls[k].dest = request.recipient
                        /\ calls[k].amount = sol_amount
            /\ ~IsPubkey(request.recipient) => (Raised /\ FallbackTransfers = {})
        /\ variant = "jupiter" =>
            /\ ~in_fallback
            /\ UnshieldOnlyShape
            /\ FallbackTransfers = {}

C6_Witness ==
    /\ pc = "done"
    /\ variant = "devnet"
    /\ swap_fail = "submit"
    /\ in_fallback
    /\ \E k \in FallbackTransfers : calls[k].ok /\ calls[k].amount = sol_amount

C8_NoFallbackTransferOfNonPositiveAmount ==
    /\ \A k \in FallbackTransfers : calls[k].amount > 0
    /\ (in_fallback /\ lookup.done /\ sol_amount <= 0) =>
        /\ pc = "done"
        /\ FallbackTransfers = {}
        /\ UnshieldOnlyShape
        /\ response.unshieldSignature = unshield_result.signature

C8_Witness ==
    /\ in_fallback
    /\ lookup.done
    /\ lookup.balance = 5000
    /\ sol_amount = 0
    /\ pc = "done"
    /\ response.kind = "outcome"

\* C9 (as claimed): when the swap submission throws after a successful
\* quote and unshield, the outcome has a non-empty unshield signature, empty
\* swap and transfer signatures and output amount "0".
C9_SwapSubmitFailureOutcome ==
    (Returned /\ swap_fail = "submit") => UnshieldOnlyShape

\* C9 (amended): when the swap submission throws after a successful quote
\* and unshield, every returned outcome has a non-empty unshield signature
\* and an empty swap signature.  In execute_swap the transfer signature is
\* empty and the output amount "0".  In execute_swap_devnet that holds
\* unless the fallback transfer was submitted successfully; then the
\* transfer signature is the fallback's and the output amount is the amount
\* forwarded.
C9_SwapSubmitFailureOutcomeByVariant ==
    (Returned /\ swap_fail = "submit") =>
        /\ response.unshieldSignature # ""
        /\ response.swapSignature = ""
        /\ variant = "jupiter" => UnshieldOnlyShape
        /\ variant = "devnet" =>
            IF \E k \in FallbackTransfers : calls[k].ok
            THEN /\ response.transferSignature = calls[Len(calls)].sig
                 /\ calls[Len(calls)].op = "sol_transfer"
                 /\ response.transferSignature # ""
                 /\ response.outputAmount = str(calls[Len(calls)].amount)
            ELSE UnshieldOnlyShape

C9_Witness ==
    /\ Returned
    /\ swap_fail = "submit"
    /\ variant = "jupiter"
    /\ calls[Len(calls)].op = "swap"
    /\ ~calls[Len(calls)].ok

\* Every poll of the arrival check was made and none saw a token.
AllPollsZero ==
    /\ Len(polls) = max_balance_checks
    /\ \A k \in 1..Len(polls) : polls[k] = 0
NoTokensSeen ==
    /\ Len(polls) = max_balance_checks
    /\ \A k \in 1..Len(polls) : polls[k] <= 0

\* C10 (as claimed): when the swap confirmed and every poll saw zero
\* tokens, the fallback is entered, and if the sized amount is positive the
\* outcome has a non-empty transfer signature, an empty swap signature and
\* the original asset as output asset.
C10_ZeroBalanceFallbackOutcome ==
    (pc = "done" /\ variant = "devnet" /\ AllPollsZero) =>
        /\ in_fallback
        /\ (lookup.done /\ sol_amount > 0) =>
            /\ response.kind = "outcome"
            /\ response.transferSignature # ""
            /\ response.swapSignature = ""
            /\ response.outputMint = SOL_MINT

\* C10 (amended): when the swap confirmed and no poll saw a token, the
\* fallback is entered; if the sized amount is positive and the fallback
\* transfer is submitted successfully, the outcome has that transfer's
\* signature, an empty swap signature and the original asset as output
\* asset; if the submission fails the outcome is the unshield-only one.
C10_ZeroBalanceFallbackOutcomeWhenSent ==
    (pc = "done" /\ variant = "devnet" /\ NoTokensSeen) =>
        /\ in_fallback
        /\ swap_fail = "none"
        /\ Submitted("swap")
        /\ (lookup.done /\ sol_amount > 0) =>
            /\ FallbackTransfers # {}
            /\ IF \E k \in FallbackTransfers : calls[k].ok
               THEN /\ response.kind = "outcome"
                    /\ response.transferSignature = FallbackSignature
                    /\ response.transferSignature # ""
                    /\ response.swapSignature = ""
                    /\ response.outputMint = SOL_MINT
               ELSE UnshieldOnlyShape

C10_Witness ==
    /\ pc = "done"
    /\ variant = "devnet"
    /\ AllPollsZero
    /\ lookup.ok
    /\ sol_amount > 0
    /\ response.kind = "outcome"
    /\ response.transferSignature = FallbackSignature

\* The run's token transfers, as submitted.
TokenTransfers == {k \in CallIndexes : calls[k].op = "token_transfer"}
SwapSubmissions == {k \in CallIndexes : calls[k].op = "swap" /\ calls[k].ok}

\* C11: in execute_swap_devnet, when the swap succeeded and every one of
\* the MAX_TRANSFER_RETRIES transfer attempts failed, the outcome returned
\* has the swap's non-empty signature, an empty transfer signature and, as
\* output amount, the positive token balance the last poll read (the
\* amount every attempt tried to transfer), whatever the quote estimated.
C11_TransferExhaustedOutcome ==
    (/\ pc = "done"
     /\ variant = "devnet"
     /\ TokenTransfers # {}
     /\ \A k \in TokenTransfers : ~calls[k].ok) =>
        /\ Cardinality(TokenTransfers) = MAX_TRANSFER_RETRIES
        /\ SwapSubmissions # {}
        /\ swap_fail = "none"
        /\ response.kind = "outcome"
        /\ response.swapSignature # ""
        /\ \A k \in SwapSubmissions : response.swapSignature = calls[k].sig
        /\ response.transferSignature = ""
        /\ polls # <<>>
        /\ polls[Len(polls)] > 0
        /\ response.outputAmount = str(polls[Len(polls)])
        /\ \A k \in TokenTransfers : calls[k].amount = polls[Len(polls)]

\* The balance read (5) differs from the quote's estimate ("9").
C11_Witness ==
    /\ pc = "done"
    /\ variant = "devnet"
    /\ Cardinality(TokenTransfers) = MAX_TRANSFER_RETRIES
    /\ \A k \in TokenTransfers : ~calls[k].ok
    /\ polls[Len(polls)] = 5
    /\ quote.out_amount = "9"
    /\ response.outputAmount = "5"

(***************************************************************************)
(* Properties of the job queue.                                            *)
(***************************************************************************)
TerminalStatuses == {"completed", "failed"}
\* The status changes the lifecycle allows in one write.
StatusStep(a, b) ==
    \/ b = a
    \/ a = "pending" /\ b = "processing"
    \/ a = "processing" /\ b \in TerminalStatuses
StatusesOf(job_id) == {trail[job_id][k].status : k \in 1..Len(trail[job_id])}
\* The trail is the record's history: its last entry is the record.
TrailFaithful ==
    /\ DOMAIN trail = DOMAIN tasks
    /\ DOMAIN jobs \subseteq DOMAIN tasks
    /\ \A job_id \in DOMAIN jobs :
        Snapshot(jobs[job_id]) = trail[job_id][Len(trail[job_id])]

\* C12: every job starts PENDING and each write moves its status along
\* PENDING -> PROCESSING -> (COMPLETED or FAILED) or leaves it; a terminal
\* status never changes, no job has held both terminal statuses, and the
\* job's task has set it PROCESSING exactly once when the job has left
\* PENDING and never before.
C12_StatusMovesForwardOnce ==
    /\ TrailFaithful
    /\ \A job_id \in DOMAIN trail :
        LET t == trail[job_id]
        IN /\ t[1].status = "pending"
           /\ \A k \in 1..(Len(t) - 1) : StatusStep(t[k].status, t[k + 1].status)
           /\ ~(TerminalStatuses \subseteq StatusesOf(job_id))
           /\ tasks[job_id].starts = IF StatusesOf(job_id) = {"pending"} THEN 0 ELSE 1

\* One job ended COMPLETED, another FAILED.
C12_Witness ==
    /\ \E job_id \in DOMAIN trail :
        /\ StatusesOf(job_id) = {"pending", "processing", "completed"}
        /\ tasks[job_id].starts = 1
    /\ \E job_id \in DOMAIN trail :
        /\ StatusesOf(job_id) = {"pending", "processing", "failed"}
        /\ tasks[job_id].pc = "returned"

\* C13: whatever get_status returns, the job's result is present exactly
\* when its status is COMPLETED and its error exactly when it is FAILED.
C13_ResultIffCompletedErrorIffFailed ==
    \A job_id \in UUIDs :
        get_status(job_id) # None =>
            /\ get_status(job_id).result # None <=> get_status(job_id).status = "completed"
            /\ get_status(job_id).error # None <=> get_status(job_id).status = "failed"

C13_Witness ==
    /\ \E job_id \in UUIDs :
        /\ get_status(job_id) # None
        /\ get_status(job_id).status = "completed"
        /\ get_status(job_id).result # None
        /\ get_status(job_id).result.proof = ValidProofHex
    /\ \E job_id \in UUIDs :
        /\ get_status(job_id) # None
        /\ get_status(job_id).status = "failed"
        /\ get_status(job_id).error = Some(GENERIC_ERROR_MESSAGE)
    /\ \E job_id \in UUIDs :
        /\ get_status(job_id) # None
        /\ get_status(job_id).status = "processing"
        /\ get_status(job_id).progress = 90
        /\ get_status(job_id).result = None

\* The checkpoints, in order.
Checkpoints ==
    <<[progress |-> 0, stage |-> "queued"],
      [progress |-> 10, stage |-> "initializing"],
      [progress |-> 30, stage |-> "generating_witnesses"],
      [progress |-> 60, stage |-> "computing_proof"],
      [progress |-> 90, stage |-> "verifying_proof"],
      [progress |-> 100, stage |-> "finalizing"]>>
IsCheckpoint(s, n) ==
    s.progress = Checkpoints[n].progress /\ s.stage = Checkpoints[n].stage
\* The checkpoint a snapshot is at, 0 when it is at none.
CheckpointOf(s) ==
    IF \E n \in 1..Len(Checkpoints) : IsCheckpoint(s, n)
    THEN CHOOSE n \in 1..Len(Checkpoints) : IsCheckpoint(s, n)
    ELSE 0

\* C14: the (progress, stage) values written to a job's record over time,
\* among which are all that successive get_status calls see, start at
\* queued(0), are
\* always one of the six checkpoints, and each write keeps the checkpoint
\* or moves to the next one, so progress never decreases; a job whose
\* proof generation succeeded and whose task has returned is COMPLETED at
\* finalizing(100) with the generated proof and nullifier as result.
C14_ProgressFollowsCheckpoints ==
    /\ TrailFaithful
    /\ \A job_id \in DOMAIN trail :
        LET t == trail[job_id]
        IN /\ CheckpointOf(t[1]) = 1
           /\ \A k \in 1..Len(t) : CheckpointOf(t[k]) # 0
           /\ \A k \in 1..(Len(t) - 1) :
                /\ CheckpointOf(t[k + 1]) \in {CheckpointOf(t[k]), CheckpointOf(t[k]) + 1}
                /\ t[k + 1].progress >= t[k].progress
    /\ \A job_id \in DOMAIN jobs :
        (/\ tasks[job_id].pc = "returned"
         /\ tasks[job_id].veil_result # None
         /\ tasks[job_id].veil_result.raised = "") =>
            /\ jobs[job_id].status = "completed"
            /\ jobs[job_id].progress = 100
            /\ jobs[job_id].stage = "finalizing"
            /\ jobs[job_id].result # None
            /\ jobs[job_id].result.proof = tasks[job_id].veil_result.proof
            /\ jobs[job_id].result.nullifier = tasks[job_id].veil_result.nullifier
            /\ jobs[job_id].result.proof # ""
            /\ jobs[job_id].result.nullifier # ""

C14_Witness ==
    \E job_id \in DOMAIN jobs :
        /\ jobs[job_id].status = "completed"
        /\ jobs[job_id].progress = 100
        /\ [k \in 1..Len(trail[job_id]) |-> trail[job_id][k].progress]
            = <<0, 0, 10, 30, 60, 90, 100, 100>>

SameParameters(a, b) ==
    /\ a.commitment = b.commitment
    /\ a.secret = b.secret
    /\ a.amount = b.amount
    /\ a.recipient = b.recipient
    /\ a.denomination = b.denomination
\* The step leaves every record but job_id's in the table and unchanged.
OthersUntouched(job_id) ==
    \A other \in DOMAIN jobs \ {job_id} :
        other \in DOMAIN jobs' /\ jobs'[other] = jobs[other]

\* C15: every submit call, whether or not a job with the same parameters
\* exists, adds one PENDING job under an id no job had before and leaves
\* every other record as it was, so two identical calls give two records
\* under distinct ids; a step that changes a job's record is a step of
\* that job's own task and changes no other record and no other task, and a
\* deletion changes no record that remains.
C15_IdenticalSubmitsIndependent ==
    [][/\ submit =>
            \E new \in UUIDs \ (DOMAIN jobs \cup DOMAIN tasks) :
                /\ DOMAIN jobs' = DOMAIN jobs \cup {new}
                /\ jobs'[new].id = new
                /\ jobs'[new].status = "pending"
                /\ tasks'[new].pc = "created"
                /\ \A old \in DOMAIN jobs : jobs'[old] = jobs[old]
                /\ \A old \in DOMAIN tasks : tasks'[old] = tasks[old]
       /\ \A job_id \in DOMAIN jobs :
            (job_id \in DOMAIN jobs' /\ jobs'[job_id] # jobs[job_id]) =>
                /\ tasks'[job_id].pc # tasks[job_id].pc
                /\ tasks[job_id].pc # "returned"
                /\ \A other \in DOMAIN tasks \ {job_id} : tasks'[other] = tasks[other]
                /\ OthersUntouched(job_id)
       /\ \A job_id \in DOMAIN jobs \ DOMAIN jobs' :
            \A other \in DOMAIN jobs' : other \in DOMAIN jobs /\ jobs'[other] = jobs[other]
      ]_vars

\* Two jobs submitted with the same parameters, under distinct ids, one
\* COMPLETED and the other FAILED.
C15_Witness ==
    \E a \in DOMAIN jobs, b \in DOMAIN jobs :
        /\ a # b
        /\ jobs[a].id # jobs[b].id
        /\ SameParameters(jobs[a], jobs[b])
        /\ jobs[a].status = "completed"
        /\ jobs[b].status = "failed"
        /\ tasks[a].pc = "returned"
        /\ tasks[b].pc = "returned"

\* sub occurs in s.
Contains(s, sub) ==
    \E k \in 1..(Len(s) - Len(sub) + 1) : SubSeq(s, k, k + Len(sub) - 1) = sub
KnownErrors == {"ValidationError", "VeilError"}
\* The task of job_id has returned after generate_proof raised.
GenerationRaised(job_id) ==
    /\ job_id \in DOMAIN jobs
    /\ tasks[job_id].pc = "returned"
    /\ tasks[job_id].veil_result # None
    /\ tasks[job_id].veil_result.raised # ""

\* C16: when generate_proof raised ValidationError or VeilError the job is
\* FAILED and its error is that exception's message, unchanged; when it
\* raised anything else the job is FAILED and its error is the fixed
\* generic message, which contains neither the exception's text nor the
\* secret that text quotes.
C16_KnownErrorsVerbatimOthersSanitized ==
    \A job_id \in DOMAIN tasks :
        GenerationRaised(job_id) =>
            LET e == tasks[job_id].veil_result
            IN /\ jobs[job_id].status = "failed"
               /\ jobs[job_id].result = None
               /\ e.raised \in KnownErrors => jobs[job_id].error = Some(e.message)
               /\ e.raised \notin KnownErrors =>
                    /\ jobs[job_id].error = Some(GENERIC_ERROR_MESSAGE)
                    /\ ~Contains(jobs[job_id].error.some, e.message)
                    /\ ~Contains(jobs[job_id].error.some, jobs[job_id].secret)

\* One job failed on a ValidationError, one on a VeilError and one on an
\* unexpected exception.
C16_Witness ==
    /\ \E job_id \in DOMAIN tasks :
        /\ GenerationRaised(job_id)
        /\ tasks[job_id].veil_result.raised = "ValidationError"
        /\ jobs[job_id].error = Some("Invalid hex encoding for secret")
    /\ \E job_id \in DOMAIN tasks :
        /\ GenerationRaised(job_id)
        /\ tasks[job_id].veil_result.raised = "VeilError"
        /\ jobs[job_id].error = Some(VeilErrorMessage)
    /\ \E job_id \in DOMAIN tasks :
        /\ GenerationRaised(job_id)
        /\ tasks[job_id].veil_result.raised = "RuntimeError"
        /\ jobs[job_id].error = Some(GENERIC_ERROR_MESSAGE)

\* The job's age exceeds the retention window.
OlderThanWindow(j) == now - j.created_at > 1

\* C17: a sweep deletes exactly the jobs that are COMPLETED or FAILED and
\* older than the one-hour retention window and leaves every other record
\* in the table unchanged; no step of any kind removes a PENDING or
\* PROCESSING job or a terminal job within the window.
C17_SweepDeletesExactlyOldTerminalJobs ==
    [][/\ cleanup_old_jobs =>
            /\ DOMAIN jobs' \subseteq DOMAIN jobs
            /\ \A job_id \in DOMAIN jobs :
                job_id \notin DOMAIN jobs' <=>
                    (jobs[job_id].status \in TerminalStatuses /\ OlderThanWindow(jobs[job_id]))
            /\ \A job_id \in DOMAIN jobs' : jobs'[job_id] = jobs[job_id]
       /\ \A job_id \in DOMAIN jobs \ DOMAIN jobs' :
            /\ jobs[job_id].status \notin {"pending", "processing"}
            /\ OlderThanWindow(jobs[job_id])
      ]_vars

\* A sweep has deleted a job while an older-than-window PROCESSING job and
\* a terminal job within the window stayed.
C17_Witness ==
    /\ DOMAIN tasks \ DOMAIN jobs # {}
    /\ \E job_id \in DOMAIN jobs :
        jobs[job_id].status = "processing" /\ OlderThanWindow(jobs[job_id])
    /\ \E job_id \in DOMAIN jobs :
        jobs[job_id].status \in TerminalStatuses /\ now - jobs[job_id].created_at = 1

(***************************************************************************)
(* Properties of the relayer.                                              *)
(***************************************************************************)
\* floor(amount * fee_bps / 10000): the q with q * 10000 <= amount * fee_bps
\* < (q + 1) * 10000.
IsFloorOfShare(q, amount) ==
    q * 10000 <= amount * fee_bps /\ amount * fee_bps < (q + 1) * 10000
\* max(floor(amount * fee_bps / 10000), 5000): the floor itself when it is
\* above 5000, and 5000 when the floor is at most 5000.
IsFeeOf(fee, amount) ==
    \/ fee > 5000 /\ IsFloorOfShare(fee, amount)
    \/ fee = 5000 /\ amount * fee_bps < 5001 * 10000

\* C18: for every amount >= 0 and every configured fee_bps,
\* calculate_fee(amount) is max(floor(amount * fee_bps / 10000), 5000), so
\* it is at least 5000, and calculate_amount_after_fee(amount) is the
\* amount less that fee.
C18_FeeFormula ==
    \A c \in RelayCallers :
        /\ relayer_reply[c].op = "calculate_fee" =>
            /\ IsFeeOf(relayer_reply[c].value, relayer_reply[c].amount)
            /\ relayer_reply[c].value >= 5000
        /\ relayer_reply[c].op = "calculate_amount_after_fee" =>
            /\ IsFeeOf(relayer_reply[c].amount - relayer_reply[c].value,
                       relayer_reply[c].amount)
            /\ relayer_reply[c].value <= relayer_reply[c].amount - 5000

\* The share is above the minimum: 0.3% of 3000000 is 9000.
C18_Witness ==
    /\ fee_bps = 30
    /\ \E c \in RelayCallers :
        /\ relayer_reply[c].op = "calculate_amount_after_fee"
        /\ relayer_reply[c].amount = 3000000
        /\ relayer_reply[c].value = 2991000

\* The caller's relay_unshield returned a RelayResult.
RelaySucceeded(c) ==
    /\ relayer_reply[c].op = "relay_unshield"
    /\ ~relayer_reply[c].awaiting
    /\ relayer_reply[c].ok

\* C19 (as claimed): the RelayResult of a successful relay_unshield has
\* amount_sent = amount - fee_paid, fee_paid = calculate_fee(amount) and
\* the requested recipient.
C19_AmountSentIsAmountLessFee ==
    \A c \in RelayCallers :
        RelaySucceeded(c) =>
            /\ relayer_reply[c].result.fee_paid = calculate_fee(relayer_reply[c].amount)
            /\ relayer_reply[c].result.amount_sent
                = relayer_reply[c].amount - relayer_reply[c].result.fee_paid
            /\ relayer_reply[c].result.recipient = relayer_reply[c].recipient

\* The first check of relay_unshield that fails for the caller's call, ""
\* when all three pass.
FailedCheck(c) ==
    IF ~relayer_enabled THEN "Relayer is disabled"
    ELSE IF relayer_reply[c].nullifier_len # 32 THEN "Invalid nullifier length"
    ELSE IF relayer_reply[c].recipient \notin ValidPubkeys
        THEN "Invalid recipient address: " \o relayer_reply[c].recipient
    ELSE ""

\* C20: a relay_unshield call made while the relayer is disabled, with a
\* nullifier that is not 32 bytes long or with a recipient that is not a
\* chain address raises RelayerError for the first check that fails at
\* once, loads no keypair and submits no transaction, whatever other calls
\* are in flight; a call submits a transaction only when all three checks
\* passed, and then one transaction, for its own recipient and amount.
C20_FailFastBeforeSideEffects ==
    \A c \in RelayCallers :
        relayer_reply[c].op = "relay_unshield" =>
            /\ FailedCheck(c) # "" =>
                /\ ~relayer_reply[c].awaiting
                /\ ~relayer_reply[c].ok
                /\ relayer_reply[c].result = None
                /\ relayer_reply[c].message = FailedCheck(c)
                /\ relayer_reply[c].keypair_after = relayer_reply[c].keypair_before
                /\ relayer_reply[c].submitted = <<>>
            /\ relayer_reply[c].submitted # <<>> =>
                /\ FailedCheck(c) = ""
                /\ relayer_reply[c].keypair_after = "loaded"
                /\ relayer_keypair = "loaded"
                /\ Len(relayer_reply[c].submitted) = 1
                /\ relayer_reply[c].submitted[1].destination = relayer_reply[c].recipient
                /\ relayer_reply[c].submitted[1].amount = relayer_reply[c].amount
            /\ relayer_reply[c].awaiting => relayer_reply[c].submitted # <<>>

\* A wrong-length nullifier is refused while the other caller's call,
\* which loaded the keypair, awaits the chain.
C20_Witness ==
    /\ relayer_enabled
    /\ keypair_file
    /\ relayer_reply["a"].op = "relay_unshield"
    /\ relayer_reply["a"].awaiting
    /\ relayer_reply["a"].keypair_before = "none"
    /\ relayer_reply["a"].submitted # <<>>
    /\ relayer_reply["b"].op = "relay_unshield"
    /\ relayer_reply["b"].nullifier_len = 31
    /\ relayer_reply["b"].recipient = "RecipientWallet"
    /\ relayer_reply["b"].message = "Invalid nullifier length"
    /\ relayer_reply["b"].keypair_before = "loaded"
    /\ relayer_reply["b"].submitted = <<>>

\* C21: whenever relay_unshield hands a transaction to the chain under the
\* relayer's key, the proof it was given is a valid one: neither an empty
\* nor a malformed proof reaches submission.
C21_NoSubmissionWithoutValidProof ==
    \A c \in RelayCallers :
        (relayer_reply[c].op = "relay_unshield" /\ relayer_reply[c].submitted # <<>>)
            => /\ relayer_reply[c].proof = ValidProofHex
               /\ relayer_reply[c].submitted[1].proof = ValidProofHex

(***************************************************************************)
(* Properties of the saga's retries and of its fallback.                   *)
(***************************************************************************)
\* Every submission of the run with the given operation, failed ones too.
CallsOf(op) == {k \in CallIndexes : calls[k].op = op}

\* C27: within one run no retry re-executes an earlier step: the run
\* submits at most one unshield and at most one swap transaction, every
\* unshield precedes every swap, and every swap precedes every token or
\* fallback transfer, however often a later step is retried.
C27_EarlierStepsRunOnce ==
    /\ Cardinality(CallsOf("relay_unshield")) <= 1
    /\ Cardinality(CallsOf("swap")) <= 1
    /\ \A k \in CallsOf("relay_unshield") :
         \A n \in CallsOf("swap") \cup CallsOf("token_transfer") \cup CallsOf("sol_transfer") :
            k < n
    /\ \A k \in CallsOf("swap") :
         \A n \in CallsOf("token_transfer") \cup CallsOf("sol_transfer") : k < n

\* A run whose transfer was retried to exhaustion, after one unshield and
\* one swap.
C27_Witness ==
    /\ pc = "done"
    /\ variant = "devnet"
    /\ Cardinality(CallsOf("token_transfer")) = MAX_TRANSFER_RETRIES
    /\ \A k \in CallsOf("token_transfer") : ~calls[k].ok
    /\ Cardinality(CallsOf("relay_unshield")) = 1
    /\ Cardinality(CallsOf("swap")) = 1

\* C25: the fallback is entered only when the swap has not executed on
\* chain: in every state in which the fallback transfer of the original
\* asset has been submitted, the chain did not execute the run's swap
\* transaction (no run has its swap take effect and also pays the
\* recipient through the fallback).
C25_FallbackOnlyWhenSwapNotExecuted ==
    Submitted("sol_transfer") => ~swap_executed

(***************************************************************************)
(* Properties of the swap providers' clients.                              *)
(***************************************************************************)
RECURSIVE Pow(_, _)
Pow(b, e) == IF e = 0 THEN 1 ELSE b * Pow(b, e - 1)

\* The sleeps of the call in progress, in order.
Waits == SelectSeq(calls, LAMBDA c : c.op = "sleep")
InRequestLoop == provider_call.service = "raydium"
RateLimited == {k \in CallsOf("http") : calls[k].outcome.status = 429}
\* A rate limit, a server error or an exception of the retryable list.
IsTransient(o) ==
    \/ o.raises \in RETRYABLE_EXCEPTIONS
    \/ o.raises = "" /\ (o.status >= 500 \/ o.status = 429)
\* A 4xx response other than 429.
IsPermanent(o) == o.raises = "" /\ o.status >= 400 /\ o.status < 500 /\ o.status # 429

\* C22: in the retrying request loop the wait before the n-th retry is at
\* least RETRY_DELAY_SECONDS * RETRY_BACKOFF_MULTIPLIER^(n-1), and no wait
\* is shorter than the one before it, whatever the transient failures are.
C22_BackoffLowerBound ==
    InRequestLoop =>
        \A n \in 1..Len(Waits) :
            /\ Waits[n].seconds >=
                    RETRY_DELAY_SECONDS * Pow(RETRY_BACKOFF_MULTIPLIER, n - 1)
            /\ n > 1 => Waits[n].seconds >= Waits[n - 1].seconds

\* Three retries, the second after a rate limit: waits of 1, 4 and 8.
C22_Witness ==
    /\ InRequestLoop
    /\ pc = "done"
    /\ Len(Waits) = MAX_RETRIES
    /\ Waits[1].seconds = 1
    /\ Waits[2].seconds = 4
    /\ Waits[3].seconds = 8

\* C23: every failure of a get_quote call, of either provider, reaches the
\* caller as the classified error (transient or permanent); no failure of
\* the request or of decoding its response leaves as another exception.
C23_QuoteFailuresClassified ==
    (pc = "done" /\ provider_call.method = "get_quote" /\ response.kind = "error")
        => response.class = "RaydiumAPIError"

\* C24: get_token_list of either provider makes an upstream request only
\* when it has fetched no list yet or its last successful fetch is at
\* least cache_ttl seconds old; a read within that time makes none.
C24_TokenListFetchedOnlyWhenStale ==
    /\ (provider_call.method = "get_token_list" /\ CallsOf("http") # {}) =>
            \/ provider_call.last_fetch = None
            \/ provider_call.started_at - provider_call.last_fetch.some >= cache_ttl
    /\ \A r \in TokenReaders :
          token_reads[r].requested =>
            \/ token_reads[r].last_fetch = None
            \/ token_reads[r].now - token_reads[r].last_fetch.some >= cache_ttl

\* C28: the request loop makes at most MAX_RETRIES + 1 attempts; a
\* response below 400 is returned at once and ends the loop; every sleep
\* stands between two attempts, never after the last one; and when all
\* MAX_RETRIES + 1 attempts failed transiently the error raised is
\* classified transient with status 503.
C28_LoopBoundedAndTransientAtExhaustion ==
    InRequestLoop =>
        /\ Cardinality(CallsOf("http")) <= MAX_RETRIES + 1
        /\ \A k \in CallsOf("http") :
             (calls[k].outcome.raises = "" /\ calls[k].outcome.status < 400) =>
                /\ k = Len(calls)
                /\ pc # "request"
                /\ http_response # None
                /\ http_response.status = calls[k].outcome.status
        /\ \A k \in CallsOf("sleep") :
             /\ k > 1
             /\ calls[k - 1].op = "http"
             /\ k < Len(calls) => calls[k + 1].op = "http"
             /\ k = Len(calls) => (pc = "request" /\ attempt <= MAX_RETRIES)
        /\ (/\ pc = "done"
            /\ CallsOf("http") # {}
            /\ \A k \in CallsOf("http") : IsTransient(calls[k].outcome)) =>
                /\ Cardinality(CallsOf("http")) = MAX_RETRIES + 1
                /\ Len(Waits) = MAX_RETRIES
                /\ response.kind = "error"
                /\ response.class = "RaydiumAPIError"
                /\ response.is_transient
                /\ response.status_code = 503

\* Four attempts, all failing transiently.
C28_Witness ==
    /\ InRequestLoop
    /\ pc = "done"
    /\ Cardinality(CallsOf("http")) = MAX_RETRIES + 1
    /\ \A k \in CallsOf("http") : IsTransient(calls[k].outcome)
    /\ attempt = MAX_RETRIES
    /\ response.status_code = 503
    /\ response.message
        = "Raydium API unavailable after 4 attempts: HTTPStatusError: Rate limited"

\* execute_swap_devnet caught a permanent error from the provider's method.
CaughtPermanent ==
    /\ provider_call.caught # None
    /\ provider_call.caught.class = "RaydiumAPIError"
    /\ ~provider_call.caught.is_transient
\* The last HTTP attempt of the provider call.
LastHttp(k) == k \in CallsOf("http") /\ \A n \in CallsOf("http") : n <= k
\* The provider's method has ended (the handler is past the try statement).
MethodEnded == provider_call.service = "raydium" /\ pc \notin {"request", "decode"}

C30_RateLimitDoublesOnce ==
    InRequestLoop =>
        /\ \A k \in CallsOf("http") :
             (k < Len(calls) /\ calls[k + 1].op = "sleep") =>
                LET x == calls[k].delay
                    wait == calls[k + 1].seconds
                    next == IF k + 2 <= Len(calls) THEN calls[k + 2].delay ELSE delay
                IN IF calls[k].outcome.status = 429
                   THEN wait = 2 * x /\ next = 2 * x * RETRY_BACKOFF_MULTIPLIER
                   ELSE wait = x /\ next = x * RETRY_BACKOFF_MULTIPLIER
        /\ delay = RETRY_DELAY_SECONDS * Pow(RETRY_BACKOFF_MULTIPLIER, Len(Waits))
                                       * Pow(2, Cardinality(RateLimited))

\* A rate limit, then a server error: waits of 2 and 4, next delay 8.
C30_Witness ==
    /\ InRequestLoop
    /\ Len(calls) = 4
    /\ calls[1].outcome.status = 429
    /\ calls[2].seconds = 2
    /\ calls[3].outcome.status = 500
    /\ calls[3].delay = 4
    /\ calls[4].seconds = 4
    /\ delay = 8

(***************************************************************************)
(* Properties of concurrent runs.                                          *)
(***************************************************************************)
\* C26: two concurrent runs that share the relayer's accounts are
\* independent: the tokens a run transfers to its recipient are the
\* tokens its own swap yielded, and a run whose step 3 raised nothing and
\* whose reads of the token account all succeeded falls back only when
\* its own swap did not execute, whatever the other run does.
C26_ConcurrentRunsIndependent ==
    \A s \in SagaIds :
        /\ saga[s].transferred > 0 => saga[s].transferred = SagaSwapOut[s]
        /\ (saga[s].fallback /\ saga[s].swap_fail = "none" /\ saga[s].failed_reads = 0)
             => ~saga[s].executed

(***************************************************************************)
(* Properties of the arrival check, the transfer step and the outcomes.    *)
(***************************************************************************)
PollIndexes == 1..Len(polls)

\* C31: in execute_swap_devnet the arrival check reads the relayer's token
\* account at most max_balance_checks times; a positive reading is the
\* last one and becomes actual_token_amount; a failed read counts as zero;
\* and when no read saw a positive balance the fallback is entered and no
\* token transfer to the recipient is ever attempted.
C31_ArrivalCheckBounded ==
    variant = "devnet" =>
        /\ Len(polls) <= max_balance_checks
        /\ \A k \in PollIndexes : polls[k] > 0 =>
             /\ k = Len(polls)
             /\ pc # "d_poll"
             /\ actual_token_amount = polls[k]
        /\ (\A k \in PollIndexes : polls[k] <= 0) =>
             /\ actual_token_amount = 0
             /\ TokenTransfers = {}
             /\ pc = "d_poll" => Len(polls) < max_balance_checks
        /\ NoTokensSeen => in_fallback
        /\ (in_fallback /\ swap_fail = "none") => NoTokensSeen
        /\ TokenTransfers # {} => (polls # <<>> /\ polls[Len(polls)] > 0)

\* Reads that failed and reads of zero, five in all, then the fallback.
C31_Witness ==
    /\ variant = "devnet"
    /\ pc = "done"
    /\ Len(polls) = max_balance_checks
    /\ polls[1] = -1
    /\ polls[2] = 0
    /\ polls[max_balance_checks] = -1
    /\ in_fallback
    /\ TokenTransfers = {}

SuccessfulTransfers == {k \in TokenTransfers : calls[k].ok}

\* C32: in execute_swap_devnet the transfer step submits at most
\* MAX_TRANSFER_RETRIES token transfers, each for the balance the arrival
\* check read; a transfer that returns a signature is the last call of the
\* run and its signature is the outcome's transfer signature; and when all
\* MAX_TRANSFER_RETRIES attempts failed the handler returns an outcome with
\* the swap's signature and an empty transfer signature, with no fallback
\* transfer and no error raised.
C32_TransferAttemptsBounded ==
    (variant = "devnet" /\ TokenTransfers # {}) =>
        /\ Cardinality(TokenTransfers) <= MAX_TRANSFER_RETRIES
        /\ Cardinality(SuccessfulTransfers) <= 1
        /\ \A k \in TokenTransfers :
             /\ calls[k].amount = polls[Len(polls)]
             /\ calls[k].dest = request.recipient
        /\ \A k \in SuccessfulTransfers :
             /\ k = Len(calls)
             /\ Returned
             /\ response.transferSignature = calls[k].sig
             /\ response.transferSignature # ""
        /\ (pc = "d_transfer") =>
             /\ SuccessfulTransfers = {}
             /\ Cardinality(TokenTransfers) < MAX_TRANSFER_RETRIES
        /\ (pc # "d_transfer") => pc = "done"
        /\ (pc = "done" /\ SuccessfulTransfers = {}) =>
             /\ Cardinality(TokenTransfers) = MAX_TRANSFER_RETRIES
             /\ Returned
             /\ response.swapSignature = swap_signature
             /\ response.swapSignature # ""
             /\ response.transferSignature = ""
        /\ ~in_fallback
        /\ FallbackTransfers = {}

\* Two failed attempts, then the third returns a signature.
C32_Witness ==
    /\ variant = "devnet"
    /\ pc = "done"
    /\ Cardinality(TokenTransfers) = MAX_TRANSFER_RETRIES
    /\ Cardinality(SuccessfulTransfers) = 1
    /\ calls[Len(calls)].op = "token_transfer"
    /\ calls[Len(calls)].ok
    /\ response.transferSignature = TransferSignature
    /\ polls[Len(polls)] = 5

\* C33: when send_sol_to_recipient returns, the outcome has its signature
\* as transfer signature, an empty swap signature, SOL_MINT as output asset
\* and the lamports sent as output amount; when it raises, the outcome has
\* empty swap and transfer signatures, output amount "0" and the requested
\* output asset.  Either way the send is the run's last call and the
\* unshield's signature, recipient and fee are reported.
C33_FallbackTransferOutcome ==
    (pc = "done" /\ FallbackTransfers # {}) =>
        /\ Cardinality(FallbackTransfers) = 1
        /\ \A k \in FallbackTransfers :
             /\ k = Len(calls)
             /\ calls[k].amount = sol_amount
             /\ response.kind = "outcome"
             /\ response.swapSignature = ""
             /\ response.unshieldSignature = unshield_result.signature
             /\ response.recipient = request.recipient
             /\ response.fee = unshield_result.fee_paid
             /\ IF calls[k].ok
                THEN /\ response.transferSignature = calls[k].sig
                     /\ response.transferSignature # ""
                     /\ response.outputMint = SOL_MINT
                     /\ response.outputAmount = str(calls[k].amount)
                ELSE /\ response.transferSignature = ""
                     /\ response.outputMint = request.output_mint
                     /\ response.outputAmount = "0"

\* The balance caps the amount: what is sent and reported is less than
\* the amount intended, and the requested asset was not SOL.
C33_Witness ==
    /\ pc = "done"
    /\ FallbackTransfers # {}
    /\ calls[Len(calls)].op = "sol_transfer"
    /\ calls[Len(calls)].ok
    /\ lookup.ok
    /\ calls[Len(calls)].amount < job.amount - unshield_result.fee_paid
    /\ response.outputAmount = str(sol_amount)
    /\ request.output_mint # SOL_MINT
    /\ response.outputMint = SOL_MINT

AfterEnsureAta ==
    {"d_swap_build", "d_swap_send", "d_swap_confirm", "d_poll", "d_recheck_ata",
     "d_transfer", "f_balance", "f_send", "done"}

\* C34: in execute_swap_devnet the step that ensures the recipient's token
\* account runs once, right after the unshield, and whatever it comes to
\* (created, already there, or failed) the run goes on to the swap: it
\* ends only after the swap was submitted or its build failed, never with
\* an error the handler raised.  The account is looked at a second time
\* (and may then be created) after the last, positive poll and before
\* the first transfer attempt, and a failure there does not stop the
\* transfer either.
C34_EnsureAtaNonFatal ==
    variant = "devnet" =>
        /\ Len(ata_steps) <= 2
        /\ ata_steps # <<>> =>
             /\ ata_steps[1].step = "ensure"
             /\ ata_steps[1].polls_before = 0
             /\ Submitted("relay_unshield")
             /\ ~(\E k \in 1..ata_steps[1].calls_before :
                    calls[k].op \in {"swap", "token_transfer", "sol_transfer"})
             /\ pc \in AfterEnsureAta
             /\ pc = "done" => (Submitted("swap") \/ swap_fail = "build")
             /\ (pc = "done" /\ response.kind = "error") => ~response.handled
        /\ Len(ata_steps) = 2 =>
             /\ ata_steps[2].step = "recheck"
             /\ ata_steps[2].polls_before = Len(polls)
             /\ polls[Len(polls)] > 0
             /\ \A k \in TokenTransfers : k > ata_steps[2].calls_before
             /\ pc \in {"d_transfer", "done"}
             /\ pc = "done" => TokenTransfers # {}
        /\ (pc = "d_transfer" \/ TokenTransfers # {}) => Len(ata_steps) = 2
        /\ pc = "d_recheck_ata" => (Len(ata_steps) = 1 /\ TokenTransfers = {})

\* The first attempt to create the account failed, the swap went through,
\* the account was created at the second look and the transfer succeeded.
C34_Witness ==
    /\ variant = "devnet"
    /\ pc = "done"
    /\ Len(ata_steps) = 2
    /\ ata_steps[1].outcome = "failed"
    /\ ata_steps[2].outcome = "created"
    /\ Submitted("swap")
    /\ SuccessfulTransfers # {}
    /\ response.transferSignature = TransferSignature

\* The four shapes of an outcome of execute_swap_devnet.
ObservedBalance == IF polls = <<>> THEN 0 ELSE polls[Len(polls)]
ShapeComplete ==
    /\ response.swapSignature # ""
    /\ response.transferSignature # ""
    /\ response.outputMint = request.output_mint
    /\ ObservedBalance > 0
    /\ response.outputAmount = str(ObservedBalance)
ShapeTransferFailed ==
    /\ response.swapSignature # ""
    /\ response.transferSignature = ""
    /\ response.outputMint = request.output_mint
    /\ ObservedBalance > 0
    /\ response.outputAmount = str(ObservedBalance)
ShapeFallbackSent ==
    /\ response.swapSignature = ""
    /\ response.transferSignature # ""
    /\ response.outputMint = SOL_MINT
    /\ FallbackTransfers # {}
    /\ \A k \in FallbackTransfers : response.outputAmount = str(calls[k].amount)
ShapeUnshieldOnly ==
    /\ response.swapSignature = ""
    /\ response.transferSignature = ""
    /\ response.outputMint = request.output_mint
    /\ response.outputAmount = "0"
ShapesHeld ==
    {sh \in {"a", "b", "c", "d"} :
        \/ sh = "a" /\ ShapeComplete
        \/ sh = "b" /\ ShapeTransferFailed
        \/ sh = "c" /\ ShapeFallbackSent
        \/ sh = "d" /\ ShapeUnshieldOnly}
DevnetOutcome == variant = "devnet" /\ Returned

\* C39 (as claimed): every outcome of execute_swap_devnet has exactly one
\* of the four shapes, and none has an empty swap signature together with
\* a non-zero amount of the requested asset.
C39_OutcomeShapes ==
    DevnetOutcome =>
        /\ Cardinality(ShapesHeld) = 1
        /\ ~(/\ response.swapSignature = ""
              /\ response.outputAmount # "0"
              /\ response.outputMint = request.output_mint)

\* C39 (amended): every outcome of execute_swap_devnet has exactly one of
\* the four shapes; an outcome with an empty swap signature and a non-zero
\* amount is the fallback's, its asset is the original asset, and so it is
\* an amount of the requested asset only when the request asked for the
\* original asset itself.
C39_OutcomeShapesByAsset ==
    DevnetOutcome =>
        /\ Cardinality(ShapesHeld) = 1
        /\ (response.swapSignature = "" /\ response.outputAmount # "0") =>
             /\ ShapeFallbackSent
             /\ response.outputMint = request.output_mint
                  <=> request.output_mint = SOL_MINT

\* The request asked for the original asset and the fallback forwarded it.
C39_Witness ==
    /\ DevnetOutcome
    /\ request.output_mint = SOL_MINT
    /\ ShapeFallbackSent
    /\ response.outputAmount # "0"
    /\ response.outputMint = request.output_mint

(***************************************************************************)
(* Further properties of the job queue.                                    *)
(***************************************************************************)
\* C38: whatever the table holds, a PENDING job has progress 0 and stage
\* "queued" and its task has not started, a COMPLETED job has progress 100
\* and stage "finalizing", and every job's id is its key and its
\* commitment, secret, amount, recipient and denomination are the
\* arguments of the submit call that created it.
C38_StatusConsistentWithProgress ==
    \A job_id \in DOMAIN jobs :
        /\ jobs[job_id].status = "pending" =>
             /\ jobs[job_id].progress = 0
             /\ jobs[job_id].stage = "queued"
             /\ tasks[job_id].pc = "created"
        /\ jobs[job_id].status = "completed" =>
             /\ jobs[job_id].progress = 100
             /\ jobs[job_id].stage = "finalizing"
        /\ jobs[job_id].id = job_id
        /\ SameParameters(jobs[job_id], tasks[job_id].given)

\* A COMPLETED job and a PENDING one submitted with another secret.
C38_Witness ==
    \E a \in DOMAIN jobs, b \in DOMAIN jobs :
        /\ jobs[a].status = "completed"
        /\ jobs[a].progress = 100
        /\ jobs[b].status = "pending"
        /\ jobs[b].stage = "queued"
        /\ jobs[a].secret # jobs[b].secret
        /\ tasks[b].given.secret = jobs[b].secret

\* The locals of a task: the copies _process_job made of the job's inputs.
Captured(t) ==
    [commitment |-> t.commitment, secret |-> t.secret, amount |-> t.amount,
     recipient |-> t.recipient]
InputsOf(j) ==
    [commitment |-> j.commitment, secret |-> j.secret, amount |-> j.amount,
     recipient |-> j.recipient]

\* C36: the step that sets a job PROCESSING is the step that copies the
\* record's commitment, secret, amount and recipient to the task's locals;
\* no later step changes those locals; and the step that calls
\* generate_proof passes exactly those locals, which are the values the
\* record held when it was set PROCESSING, whatever other steps (writes
\* of the record, submits, sweeps) came between.
C36_GeneratorGetsCapturedInputs ==
    [][\A job_id \in DOMAIN tasks :
        /\ (/\ job_id \in DOMAIN jobs
            /\ job_id \in DOMAIN jobs'
            /\ jobs[job_id].status # "processing"
            /\ jobs'[job_id].status = "processing") =>
                /\ tasks[job_id].pc = "created"
                /\ Captured(tasks'[job_id]) = InputsOf(jobs[job_id])
        /\ tasks'[job_id].pc # tasks[job_id].pc =>
                (tasks[job_id].pc = "created") =
                    (job_id \in DOMAIN jobs' /\ jobs'[job_id].status = "processing"
                     /\ jobs[job_id].status = "pending")
        /\ tasks[job_id].pc # "created" =>
                Captured(tasks'[job_id]) = Captured(tasks[job_id])
        /\ (tasks[job_id].pc = "generate_proof" /\ tasks'[job_id].pc # "generate_proof") =>
                /\ Captured(tasks[job_id]) = InputsOf(tasks[job_id].given)
                /\ \E core \in CoreOutcomes :
                     tasks'[job_id].veil_result =
                         generate_proof(tasks[job_id].given.commitment,
                                        tasks[job_id].given.secret,
                                        tasks[job_id].given.amount,
                                        tasks[job_id].given.recipient, core)
      ]_vars

\* The generator returned a proof over the inputs given at submission while
\* the job was PROCESSING and a sweep had removed another job.
C36_Witness ==
    /\ DOMAIN tasks \ DOMAIN jobs # {}
    /\ \E job_id \in DOMAIN jobs :
        /\ jobs[job_id].status = "processing"
        /\ tasks[job_id].pc = "progress_90"
        /\ tasks[job_id].veil_result.raised = ""
        /\ tasks[job_id].veil_result.public_inputs.commitment = tasks[job_id].given.commitment
        /\ tasks[job_id].veil_result.public_inputs.recipient = jobs[job_id].recipient
        /\ Captured(tasks[job_id]) = InputsOf(jobs[job_id])

\* The writes of job_id's record that set checkpoint n while PROCESSING.
ShownProcessingAt(job_id, n) ==
    {k \in 1..Len(trail[job_id]) :
        /\ trail[job_id][k].status = "processing"
        /\ IsCheckpoint(trail[job_id][k], n)}
\* The checkpoints the task of job_id has passed, by its position.
CheckpointsPassed(job_id) ==
    CASE tasks[job_id].pc = "created" -> 1
      [] tasks[job_id].pc = "progress_30" -> 2
      [] tasks[job_id].pc = "progress_60" -> 3
      [] tasks[job_id].pc \in {"generate_proof", "progress_90", "except_known",
                               "except_exception"} -> 4
      [] tasks[job_id].pc = "progress_100" -> 5
      [] tasks[job_id].pc = "returned" /\ "completed" \in StatusesOf(job_id) -> 6
      [] OTHER -> 0

\* What get_status returns always pairs a progress value with the stage
\* label of the same checkpoint; each write of a record moves it on by at
\* most one checkpoint, and a write that changes the progress is made
\* while the job is PROCESSING and leaves it PROCESSING; and every
\* checkpoint a task has passed was written once, with its label and
\* status PROCESSING.
CheckpointsWrittenWithStage ==
    /\ \A job_id \in UUIDs :
        get_status(job_id) # None =>
            /\ CheckpointOf(get_status(job_id)) # 0
            /\ get_status(job_id).status = "processing" =>
                 CheckpointOf(get_status(job_id)) = CheckpointsPassed(job_id)
    /\ \A job_id \in DOMAIN trail :
        LET t == trail[job_id]
        IN /\ \A k \in 1..(Len(t) - 1) :
                t[k + 1].progress # t[k].progress \/ t[k + 1].stage # t[k].stage =>
                    /\ CheckpointOf(t[k + 1]) = CheckpointOf(t[k]) + 1
                    /\ t[k].status = "processing"
                    /\ t[k + 1].status = "processing"
           /\ CheckpointsPassed(job_id) # 0 =>
                \A n \in 2..CheckpointsPassed(job_id) :
                    Cardinality(ShownProcessingAt(job_id, n)) = 1

\* The writes of job_id's record made by the step.
NewWrites(job_id) ==
    ((IF job_id \in DOMAIN trail THEN Len(trail[job_id]) ELSE 0) + 1)
        .. Len(trail'[job_id])
\* The step's write k of job_id's record set checkpoint n.
SetCheckpoint(job_id, k, n) ==
    /\ k > 1
    /\ trail'[job_id][k].progress # trail'[job_id][k - 1].progress
    /\ IsCheckpoint(trail'[job_id][k], n)
\* After the step get_status returns what write k left, the job PROCESSING.
VisibleProcessing(job_id, k) ==
    /\ job_id \in DOMAIN jobs'
    /\ Snapshot(jobs'[job_id]) = trail'[job_id][k]
    /\ jobs'[job_id].status = "processing"

\* C37: what get_status returns always pairs a progress value with the
\* stage label of its checkpoint, every checkpoint is written once while
\* the job is PROCESSING, and the write of each checkpoint 10, 30, 60,
\* 90 and 100 is what get_status returns, with status PROCESSING, once the
\* step that made it is over.
C37_CheckpointsVisibleWithStage ==
    /\ []CheckpointsWrittenWithStage
    /\ [][\A job_id \in DOMAIN trail' : \A k \in NewWrites(job_id) : \A n \in 2..6 :
            SetCheckpoint(job_id, k, n) => VisibleProcessing(job_id, k)]_vars

\* C37, amended: what get_status returns always pairs a progress value
\* with the stage label of its checkpoint, every checkpoint is written
\* once while the job is PROCESSING; the write of each checkpoint 10, 30,
\* 60 and 90 is what get_status returns, with status PROCESSING, once the
\* step that made it is over; the write of checkpoint 100 is followed in
\* the same step by the store of COMPLETED and the result, so get_status
\* first returns 100 with status COMPLETED and the result.
C37_CheckpointsVisibleUntilFinalizing ==
    /\ []CheckpointsWrittenWithStage
    /\ [][\A job_id \in DOMAIN trail' : \A k \in NewWrites(job_id) :
            /\ \A n \in 2..5 :
                SetCheckpoint(job_id, k, n) => VisibleProcessing(job_id, k)
            /\ SetCheckpoint(job_id, k, 6) =>
                /\ ~VisibleProcessing(job_id, k)
                /\ job_id \in DOMAIN jobs'
                /\ jobs'[job_id].status = "completed"
                /\ jobs'[job_id].progress = 100
                /\ jobs'[job_id].stage = "finalizing"
                /\ jobs'[job_id].result # None
                /\ k + 1 = Len(trail'[job_id])]_vars

\* One job has had each of the five checkpoints written while PROCESSING
\* and get_status now returns it COMPLETED at (100, "finalizing"); another
\* is returned PROCESSING at (90, "verifying_proof") after 10, 30 and 60.
C37_Witness ==
    /\ \E job_id \in UUIDs :
        /\ get_status(job_id) # None
        /\ get_status(job_id).status = "completed"
        /\ get_status(job_id).progress = 100
        /\ get_status(job_id).stage = "finalizing"
        /\ \A n \in 2..6 : ShownProcessingAt(job_id, n) # {}
    /\ \E job_id \in UUIDs :
        /\ get_status(job_id) # None
        /\ get_status(job_id).status = "processing"
        /\ get_status(job_id).progress = 90
        /\ get_status(job_id).stage = "verifying_proof"
        /\ \A n \in 2..5 : ShownProcessingAt(job_id, n) # {}

\* The task of job_id has written a terminal status and returned.
TaskEnded(job_id) ==
    /\ job_id \in DOMAIN trail
    /\ StatusesOf(job_id) \cap TerminalStatuses # {}
    /\ tasks[job_id].pc = "returned"

\* C35: submit leaves the new job PENDING with its task created and not
\* yet run; and when every task that can take a step eventually takes it,
\* every job that was submitted is eventually written COMPLETED or FAILED
\* by its task, which has then returned.  (A job once submitted stays
\* submitted and a task once ended stays ended, so "always eventually not
\* submitted or ended" says that submission leads to the end.)
C35_SubmittedJobsTerminate ==
    /\ [][submit =>
            \E new \in DOMAIN jobs' \ DOMAIN jobs :
                /\ jobs'[new].status = "pending"
                /\ tasks'[new].pc = "created"
                /\ tasks'[new].starts = 0]_vars
    /\ \A job_id \in UUIDs :
        []<>(job_id \notin DOMAIN trail \/ TaskEnded(job_id))

\* Three jobs were submitted; one has COMPLETED, one has FAILED and the
\* third is still PENDING.
C35_Witness ==
    /\ DOMAIN trail = UUIDs
    /\ \E job_id \in UUIDs : "completed" \in StatusesOf(job_id)
    /\ \E job_id \in UUIDs : "failed" \in StatusesOf(job_id)
    /\ \E job_id \in DOMAIN jobs :
        jobs[job_id].status = "pending" /\ tasks[job_id].pc = "created"

====
